---- MODULE Spec2Model ----
(***************************************************************************)
(* State-machine model of the Certificate Authority state engine:          *)
(* InitCA, SignCSR, RevokeCert, GenerateCRL, ListCerts and VerifyCert over *)
(* the files of one data directory.  A file system call of a handler may   *)
(* fail, and the process may be killed between two file system calls; the  *)
(* states of the model are the states of the data directory between two    *)
(* commands.  A handler is an operator from the directory, its arguments   *)
(* and the fault it meets to the directory it leaves and what it returns:  *)
(* [files, dirs, err, renamed, partial, out], where renamed lists the      *)
(* final paths it renamed into place, in order, and partial tells that it  *)
(* was cut short after it started to write (a crash after its first file   *)
(* system call, or a rename that failed after an earlier one succeeded).   *)
(***************************************************************************)
EXTENDS Integers, Sequences, FiniteSets, TLC

VARIABLES files,   \* path -> content, for every file that exists under the data directory
          dirs,    \* the directories that exist: the data directory and certs/
          now,     \* the system clock, in seconds
          faults,  \* number of commands cut short so far (see MaxFaults)
          hist,    \* history of the run (successful init, commands cut short, published CRLs)
          dn       \* a structured name on its way through FormatDN and ParseDN (see SpecDN)

vars == <<files, dirs, now, faults, hist, dn>>

(***************************************************************************)
(* Bounds of the model.                                                    *)
(***************************************************************************)
MaxSerial == 4       \* sign is explored while the serial counter is below this value
MaxCRLNumber == 3    \* crl is explored while the crlnumber counter is below this value
MaxNow == 1          \* a second passes while the clock is less than this many seconds into its day
MaxFaults == 1       \* at most this many commands of a run are cut short leaving work behind
MaxCounter == 300    \* the serial counter is followed while it is below this value
MaxValues == 2       \* a name holds at most this many organization values
MaxDays == 1         \* a day passes while the clock is before the start of this day

\* the clock counts whole seconds
SecondsPerHour == 60 * 60
SecondsPerDay == 24 * SecondsPerHour

Min(a, b) == IF a < b THEN a ELSE b
Max(a, b) == IF a > b THEN a ELSE b
Range(s) == {s[i] : i \in 1..Len(s)}

(***************************************************************************)
(* Text: a string the code computes is a sequence of one-character strings.*)
(***************************************************************************)
HexDigits == <<"0", "1", "2", "3", "4", "5", "6", "7", "8", "9",
               "a", "b", "c", "d", "e", "f">>
UpperHex == <<"0", "1", "2", "3", "4", "5", "6", "7", "8", "9",
              "A", "B", "C", "D", "E", "F">>
Whitespace == {" ", "\n", "\t", "\r"}

RECURSIVE Hex(_)
Hex(n) == IF n < 16 THEN <<HexDigits[n + 1]>>
          ELSE Hex(n \div 16) \o <<HexDigits[(n % 16) + 1]>>

\* fmt.Sprintf("%x", n): no padding
FormatSerialUnpadded(n) == Hex(n)

\* fmt.Sprintf("%02x", n): lowercase hex, zero-padded to at least 2 digits
FormatSerial(n) == IF Len(Hex(n)) < 2 THEN <<"0">> \o Hex(n) ELSE Hex(n)

DigitValue(c) == IF \E i \in 1..16 : HexDigits[i] = c
                 THEN (CHOOSE i \in 1..16 : HexDigits[i] = c) - 1
                 ELSE IF \E i \in 1..16 : UpperHex[i] = c
                 THEN (CHOOSE i \in 1..16 : UpperHex[i] = c) - 1
                 ELSE -1

RECURSIVE HexValue(_)
HexValue(s) == IF s = <<>> THEN 0
               ELSE 16 * HexValue(SubSeq(s, 1, Len(s) - 1)) + DigitValue(s[Len(s)])

\* strconv.ParseInt(s, 16, 64): -1 stands for the error return
ParseHex(s) == IF s = <<>> \/ \E i \in 1..Len(s) : DigitValue(s[i]) < 0
               THEN -1 ELSE HexValue(s)

\* strings.TrimSpace left out
TrimSpaceNone(s) == s

RECURSIVE TrimLeft(_)
TrimLeft(s) == IF s # <<>> /\ s[1] \in Whitespace THEN TrimLeft(Tail(s)) ELSE s
RECURSIVE TrimRight(_)
TrimRight(s) == IF s # <<>> /\ s[Len(s)] \in Whitespace
                THEN TrimRight(SubSeq(s, 1, Len(s) - 1)) ELSE s
TrimSpace(s) == TrimRight(TrimLeft(s))

\* strings.ToLower on one character and on a string
LowerChar(c) == IF \E i \in 11..16 : UpperHex[i] = c
                THEN HexDigits[CHOOSE i \in 11..16 : UpperHex[i] = c] ELSE c
ToLower(s) == [i \in 1..Len(s) |-> LowerChar(s[i])]

\* time.Format(time.RFC3339) of a UTC instant: the text is modelled as the
\* one-element sequence holding the second, the empty string as <<>>
EmptyString == <<>>
FormatRFC3339(t) == <<t>>
\* time.Parse(time.RFC3339, s): the instant; -1 stands for the error return
ParseRFC3339(s) == IF Len(s) = 1 THEN s[1] ELSE -1

(***************************************************************************)
(* Paths, relative to the data directory.                                  *)
(***************************************************************************)
dataDirPath == <<>>
certsDirPath == <<"certs">>
keyPath == <<"ca.key">>
certPath == <<"ca.crt">>
serialPath == <<"serial">>
crlnumPath == <<"crlnumber">>
indexPath == <<"index.json">>
crlPath == <<"ca.crl">>
certFilePath(serialHex) == <<"certs">> \o serialHex \o <<".pem">>
Tmp(path) == path \o <<".tmp">>
IsTmp(path) == path # <<>> /\ path[Len(path)] = ".tmp"

Exists(f, path) == path \in DOMAIN f

\* os.WriteFile, os.Rename and os.Remove when they succeed
WriteFile(f, path, data) ==
    [p \in DOMAIN f \cup {path} |-> IF p = path THEN data ELSE f[p]]
Rename(f, from, to) ==
    [p \in (DOMAIN f \ {from}) \cup {to} |-> IF p = to THEN f[from] ELSE f[p]]
Remove(f, path) == [p \in DOMAIN f \ {path} |-> f[p]]

\* failure path that leaves the .tmp files where they are
cleanupTempFilesSkipped(f, paths) == f

cleanupTempFiles(f, paths) == [p \in DOMAIN f \ Range(paths) |-> f[p]]

(***************************************************************************)
(* Faults.  [kind |-> "fail", at |-> i]: the i-th file system call of the  *)
(* handler returns an error.  [kind |-> "crash", at |-> i]: the process is *)
(* killed just before its i-th file system call.                           *)
(***************************************************************************)
NoFault == [kind |-> "none", at |-> 0]
Faults(n) == {NoFault} \cup [kind : {"fail", "crash"}, at : 1..n]

RECURSIVE ApplyWrites(_, _, _)
ApplyWrites(f, stage, n) ==
    IF n = 0 THEN f
    ELSE WriteFile(ApplyWrites(f, stage, n - 1), stage[n].tmp, stage[n].data)

RECURSIVE ApplyRenames(_, _, _)
ApplyRenames(f, commitOrder, n) ==
    IF n = 0 THEN f
    ELSE Rename(ApplyRenames(f, commitOrder, n - 1), commitOrder[n].tmp, commitOrder[n].final)

\* handler that renames each file right after it wrote it: write, rename,
\* write, rename, in commit order
StageThenCommitInterleaved(f, stage, commitOrder, tmpPaths, fault) ==
    LET m == Len(commitOrder)
        inOrder == [i \in 1..m |-> CHOOSE e \in Range(stage) : e.tmp = commitOrder[i].tmp]
        done == IF fault.kind = "none" THEN 2 * m ELSE fault.at - 1
        w == (done + 1) \div 2
        r == done \div 2
        g == ApplyRenames(ApplyWrites(f, inOrder, w), commitOrder, r)
    IN [files |-> IF fault.kind = "fail" THEN cleanupTempFiles(g, tmpPaths) ELSE g,
        err |-> IF fault.kind = "none" THEN "ok"
                ELSE IF fault.kind = "crash" THEN "crash"
                ELSE IF fault.at % 2 = 1 THEN "stage failed" ELSE "commit failed",
        renamed |-> [i \in 1..r |-> commitOrder[i].final],
        partial |-> (fault.kind = "crash" /\ done >= 1) \/ (fault.kind = "fail" /\ r >= 1)]

\* The stage sub-phase followed by the commit sub-phase of a handler: the
\* writes of `stage` in order, then the renames of `commitOrder` in order; the
\* first call that fails runs cleanupTempFiles(tmpPaths) and returns its error.
StageThenCommit(f, stage, commitOrder, tmpPaths, fault) ==
    LET k == Len(stage)
        m == Len(commitOrder)
        done == IF fault.kind = "none" THEN k + m ELSE fault.at - 1
        w == Min(done, k)
        r == Max(done - k, 0)
        g == ApplyRenames(ApplyWrites(f, stage, w), commitOrder, r)
    IN [files |-> IF fault.kind = "fail" THEN cleanupTempFiles(g, tmpPaths) ELSE g,
        err |-> IF fault.kind = "none" THEN "ok"
                ELSE IF fault.kind = "crash" THEN "crash"
                ELSE IF fault.at <= k THEN "stage failed" ELSE "commit failed",
        renamed |-> [i \in 1..r |-> commitOrder[i].final],
        partial |-> (fault.kind = "crash" /\ done >= 1) \/ (fault.kind = "fail" /\ r >= 1)]

\* writeFileAtomic: write path.tmp, rename it to path; remove path.tmp on failure
writeFileAtomic(f, path, data, fault) ==
    StageThenCommit(f, <<[tmp |-> Tmp(path), data |-> data]>>,
                    <<[tmp |-> Tmp(path), final |-> path]>>, <<Tmp(path)>>, fault)

\* marker that takes ca.key alone for an initialized CA
IsInitializedKeyOnly(f) == Exists(f, keyPath)
\* marker that never holds
IsInitializedNever(f) == FALSE

IsInitialized(f) == Exists(f, keyPath) /\ Exists(f, certPath)

(***************************************************************************)
(* Keys, certificates and requests.  A key is its identity and algorithm;  *)
(* a signature is the identity of the key that made it.                    *)
(***************************************************************************)
\* the identities of the keys found in the files of an earlier init
KeysOnDisk(f) ==
    {f[p].id : p \in {keyPath, Tmp(keyPath)} \cap DOMAIN f}
    \cup {f[p].pub : p \in {certPath, Tmp(certPath)} \cap DOMAIN f}

\* generateKeyPair: a key the random source never produced before, named by the
\* least identity no file holds; an unsupported algorithm is the error return <<>>
generateKeyPair(keyAlgo, f) ==
    IF keyAlgo \in {"ecdsa-p256", "rsa-2048"}
    THEN <<[id |-> CHOOSE n \in 1..(Cardinality(KeysOnDisk(f)) + 1) :
                     /\ n \notin KeysOnDisk(f)
                     /\ \A m \in 1..(n - 1) : m \in KeysOnDisk(f),
            algo |-> keyAlgo]>>
    ELSE <<>>

ReasonCodes == [unspecified |-> 0, keyCompromise |-> 1, affiliationChanged |-> 3,
                superseded |-> 4, cessationOfOperation |-> 5]
ValidReasons == <<"unspecified", "keyCompromise", "affiliationChanged",
                  "superseded", "cessationOfOperation">>

ErrAlreadyInitialized == "Error: CA already initialized"
ErrNotInitialized == "Error: CA not initialized. Run 'ca init' first."
ErrParseCSR == "Error: failed to parse CSR"
ErrCSRSignature == "Error: CSR signature verification failed"
ErrCSRKeyAlgo == "Error: unsupported key algorithm in CSR. Supported: ECDSA P-256, RSA 2048"
ErrNotFound == "Error: certificate with serial not found"
ErrAlreadyRevoked == "Error: certificate with serial is already revoked"

\* What a handler returns when it stops before its first write
\* error return that sweeps the .tmp files of the directory on its way out
UnchangedSweeping(f, d, err) ==
    [files |-> [p \in {q \in DOMAIN f : ~IsTmp(q)} |-> f[p]], dirs |-> d, err |-> err,
     renamed |-> <<>>, partial |-> FALSE, out |-> <<>>]

Unchanged(f, d, err) ==
    [files |-> f, dirs |-> d, err |-> err, renamed |-> <<>>, partial |-> FALSE, out |-> <<>>]

(***************************************************************************)
(* InitCA.  File system calls: 1 MkdirAll, 2..6 the stage writes, 7..11    *)
(* the renames of the commit sub-phase.                                    *)
(***************************************************************************)
InitTmpPaths == <<Tmp(keyPath), Tmp(certPath), Tmp(serialPath), Tmp(crlnumPath), Tmp(indexPath)>>

\* init that starts the serial counter at the serial of the root certificate
InitStageSerialOfRoot(key, cert) ==
    <<[tmp |-> Tmp(keyPath), data |-> key],
      [tmp |-> Tmp(certPath), data |-> cert],
      [tmp |-> Tmp(serialPath), data |-> FormatSerial(1) \o <<"\n">>],
      [tmp |-> Tmp(crlnumPath), data |-> FormatSerial(1) \o <<"\n">>],
      [tmp |-> Tmp(indexPath), data |-> <<>>]>>

InitStage(key, cert) ==
    <<[tmp |-> Tmp(keyPath), data |-> key],
      [tmp |-> Tmp(certPath), data |-> cert],
      [tmp |-> Tmp(serialPath), data |-> FormatSerial(2) \o <<"\n">>],
      [tmp |-> Tmp(crlnumPath), data |-> FormatSerial(1) \o <<"\n">>],
      [tmp |-> Tmp(indexPath), data |-> <<>>]>>

InitCommitOrder ==
    <<[tmp |-> Tmp(keyPath), final |-> keyPath],
      [tmp |-> Tmp(certPath), final |-> certPath],
      [tmp |-> Tmp(serialPath), final |-> serialPath],
      [tmp |-> Tmp(crlnumPath), final |-> crlnumPath],
      [tmp |-> Tmp(indexPath), final |-> indexPath]>>

\* InitDataDir: os.MkdirAll(dataDir/certs)
InitDataDir(d) == d \cup {dataDirPath, certsDirPath}

RootCertificate(subject, key, validityDays, t) ==
    [serial |-> 1, subject |-> subject, issuer |-> subject, pub |-> key.id,
     signedBy |-> key.id, notBefore |-> t,
     notAfter |-> t + validityDays * SecondsPerDay, isCA |-> TRUE]

InitCA(f, d, subject, keyAlgo, validityDays, t, fault) ==
    IF IsInitialized(f) THEN Unchanged(f, d, ErrAlreadyInitialized)
    ELSE IF generateKeyPair(keyAlgo, f) = <<>>
    THEN Unchanged(f, d, "failed to generate key pair")
    ELSE IF fault.kind # "none" /\ fault.at = 1
    THEN [files |-> f, dirs |-> d, renamed |-> <<>>, partial |-> FALSE, out |-> <<>>,
          err |-> IF fault.kind = "crash" THEN "crash" ELSE "failed to create certs directory"]
    ELSE LET key == generateKeyPair(keyAlgo, f)[1]
             cert == RootCertificate(subject, key, validityDays, t)
             r == StageThenCommit(f, InitStage(key, cert), InitCommitOrder, InitTmpPaths,
                                  [fault EXCEPT !.at = Max(fault.at - 1, 0)])
         IN [files |-> r.files, dirs |-> InitDataDir(d), err |-> r.err,
             renamed |-> r.renamed, partial |-> fault.kind = "crash" \/ r.partial,
             out |-> IF r.err = "ok" THEN <<FormatSerial(1)>> ELSE <<>>]

(***************************************************************************)
(* Counters and the index.                                                 *)
(***************************************************************************)
\* ReadCounter: -1 stands for the error return (file missing or not hex)
ReadCounter(f, path) == IF Exists(f, path) THEN ParseHex(TrimSpace(f[path])) ELSE -1

\* LoadIndex succeeds iff index.json exists; the file holds the entries
IndexLoads(f) == Exists(f, indexPath)
\* index read from a leftover index.json.tmp when there is one
LoadIndexPreferringTmp(f) ==
    IF Exists(f, Tmp(indexPath)) THEN f[Tmp(indexPath)] ELSE f[indexPath]

LoadIndex(f) == f[indexPath]

\* WriteCounter: the value in lowercase hex and a newline, written atomically
WriteCounter(f, path, value, fault) ==
    writeFileAtomic(f, path, FormatSerial(value) \o <<"\n">>, fault)

(***************************************************************************)
(* SignCSR.  File system calls: 1..3 the stage writes, 4..6 the renames.   *)
(***************************************************************************)
SupportedCSRKey(csr) == csr.pubAlgo \in {"ecdsa-p256", "rsa-2048"}

\* the counter written back is the one that was read
NextSerialStuck(serialVal) == serialVal
\* the counter written back skips a value
NextSerialSkips(serialVal) == serialVal + 2

NextSerial(serialVal) == serialVal + 1

SignTmpPaths(serialHex) == <<Tmp(serialPath), Tmp(certFilePath(serialHex)), Tmp(indexPath)>>

\* the index staged with its newest entry first
SignStageNewestFirst(serialVal, cert, updatedIndex) ==
    <<[tmp |-> Tmp(serialPath), data |-> FormatSerial(NextSerial(serialVal)) \o <<"\n">>],
      [tmp |-> Tmp(certFilePath(FormatSerial(serialVal))), data |-> cert],
      [tmp |-> Tmp(indexPath),
       data |-> <<updatedIndex[Len(updatedIndex)]>>
                \o SubSeq(updatedIndex, 1, Len(updatedIndex) - 1)]>>

SignStage(serialVal, cert, updatedIndex) ==
    <<[tmp |-> Tmp(serialPath), data |-> FormatSerial(NextSerial(serialVal)) \o <<"\n">>],
      [tmp |-> Tmp(certFilePath(FormatSerial(serialVal))), data |-> cert],
      [tmp |-> Tmp(indexPath), data |-> updatedIndex]>>

\* the index renamed before the counter and the certificate
SignCommitOrderIndexFirst(serialHex) ==
    <<[tmp |-> Tmp(indexPath), final |-> indexPath],
      [tmp |-> Tmp(serialPath), final |-> serialPath],
      [tmp |-> Tmp(certFilePath(serialHex)), final |-> certFilePath(serialHex)]>>

SignCommitOrder(serialHex) ==
    <<[tmp |-> Tmp(serialPath), final |-> serialPath],
      [tmp |-> Tmp(certFilePath(serialHex)), final |-> certFilePath(serialHex)],
      [tmp |-> Tmp(indexPath), final |-> indexPath]>>

\* certificate that carries the incremented counter as its serial number
EndEntityCertificateNextSerial(serialVal, csr, caKey, caCert, validityDays, t) ==
    [serial |-> serialVal + 1, subject |-> csr.subject, issuer |-> caCert.subject,
     pub |-> csr.pub, signedBy |-> caKey.id, notBefore |-> t,
     notAfter |-> t + validityDays * SecondsPerDay, isCA |-> FALSE]

EndEntityCertificate(serialVal, csr, caKey, caCert, validityDays, t) ==
    [serial |-> serialVal, subject |-> csr.subject, issuer |-> caCert.subject,
     pub |-> csr.pub, signedBy |-> caKey.id, notBefore |-> t,
     notAfter |-> t + validityDays * SecondsPerDay, isCA |-> FALSE]

NewIndexEntry(serialHex, csr, validityDays, t) ==
    [serial |-> serialHex, subject |-> csr.subject,
     not_before |-> FormatRFC3339(t),
     not_after |-> FormatRFC3339(t + validityDays * SecondsPerDay),
     status |-> "active", revoked_at |-> EmptyString, revocation_reason |-> ""]

\* sign that looks at the key of the CSR before it verifies the signature
SignCSRKeyCheckFirst(f, d, csr, validityDays, t, fault) ==
    IF ~IsInitialized(f) THEN Unchanged(f, d, ErrNotInitialized)
    ELSE IF ~csr.pem THEN Unchanged(f, d, ErrParseCSR)
    ELSE IF ~csr.der THEN Unchanged(f, d, ErrParseCSR)
    ELSE IF ~SupportedCSRKey(csr) THEN Unchanged(f, d, ErrCSRKeyAlgo)
    ELSE IF ~csr.sigOK THEN Unchanged(f, d, ErrCSRSignature)
    ELSE IF ReadCounter(f, serialPath) < 0
    THEN Unchanged(f, d, "failed to read serial counter")
    ELSE IF ~IndexLoads(f) THEN Unchanged(f, d, "failed to load index")
    ELSE LET serialVal == ReadCounter(f, serialPath)
             serialHex == FormatSerial(serialVal)
             cert == EndEntityCertificate(serialVal, csr, f[keyPath], f[certPath],
                                          validityDays, t)
             updatedIndex == Append(LoadIndex(f), NewIndexEntry(serialHex, csr, validityDays, t))
             r == StageThenCommit(f, SignStage(serialVal, cert, updatedIndex),
                                  SignCommitOrder(serialHex), SignTmpPaths(serialHex), fault)
         IN [files |-> r.files, dirs |-> d, err |-> r.err, renamed |-> r.renamed,
             partial |-> r.partial,
             out |-> IF r.err = "ok" THEN <<serialHex>> ELSE <<>>]

SignCSR(f, d, csr, validityDays, t, fault) ==
    IF ~IsInitialized(f) THEN Unchanged(f, d, ErrNotInitialized)
    ELSE IF ~csr.pem THEN Unchanged(f, d, ErrParseCSR)
    ELSE IF ~csr.der THEN Unchanged(f, d, ErrParseCSR)
    ELSE IF ~csr.sigOK THEN Unchanged(f, d, ErrCSRSignature)
    ELSE IF ~SupportedCSRKey(csr) THEN Unchanged(f, d, ErrCSRKeyAlgo)
    ELSE IF ReadCounter(f, serialPath) < 0
    THEN Unchanged(f, d, "failed to read serial counter")
    ELSE IF ~IndexLoads(f) THEN Unchanged(f, d, "failed to load index")
    ELSE LET serialVal == ReadCounter(f, serialPath)
             serialHex == FormatSerial(serialVal)
             cert == EndEntityCertificate(serialVal, csr, f[keyPath], f[certPath],
                                          validityDays, t)
             updatedIndex == Append(LoadIndex(f), NewIndexEntry(serialHex, csr, validityDays, t))
             r == StageThenCommit(f, SignStage(serialVal, cert, updatedIndex),
                                  SignCommitOrder(serialHex), SignTmpPaths(serialHex), fault)
         IN [files |-> r.files, dirs |-> d, err |-> r.err, renamed |-> r.renamed,
             partial |-> r.partial,
             out |-> IF r.err = "ok" THEN <<serialHex>> ELSE <<>>]

(***************************************************************************)
(* RevokeCert.  File system calls: 1 the write of index.json.tmp, 2 its    *)
(* rename (writeFileAtomic).                                               *)
(***************************************************************************)
\* lookup that takes the first entry of the index, whatever its serial
FindEntryFirst(index, serialHex) == IF index # <<>> THEN 1 ELSE 0

\* index of the first entry with this serial, 0 when there is none
FindEntry(index, serialHex) ==
    IF \E i \in 1..Len(index) : index[i].serial = serialHex
    THEN CHOOSE i \in 1..Len(index) :
            /\ index[i].serial = serialHex
            /\ \A j \in 1..(i - 1) : index[j].serial # serialHex
    ELSE 0

\* revoke that does not look at the status of the entry
AlreadyRevokedUnchecked(entry) == FALSE

AlreadyRevoked(entry) == entry.status = "revoked"

\* revoke that deletes the certificate file of the serial it revokes
RevokeCertRemovingFile(f, d, serialHex, reason, t, fault) ==
    IF ~IsInitialized(f) THEN Unchanged(f, d, ErrNotInitialized)
    ELSE IF ~IndexLoads(f) THEN Unchanged(f, d, "failed to load index")
    ELSE LET index == LoadIndex(f)
             found == FindEntry(index, serialHex)
         IN IF found = 0 THEN Unchanged(f, d, ErrNotFound)
            ELSE IF AlreadyRevoked(index[found]) THEN Unchanged(f, d, ErrAlreadyRevoked)
            ELSE LET updated == [index EXCEPT ![found].status = "revoked",
                                              ![found].revoked_at = FormatRFC3339(t),
                                              ![found].revocation_reason = reason]
                     r == writeFileAtomic(f, indexPath, updated, fault)
                 IN [files |-> IF r.err = "ok" THEN Remove(r.files, certFilePath(serialHex))
                               ELSE r.files,
                     dirs |-> d, renamed |-> r.renamed,
                     partial |-> r.partial, out |-> <<>>,
                     err |-> IF r.err \in {"ok", "crash"} THEN r.err
                             ELSE "failed to save index"]

\* revoke that also ends the validity of the entry at the revocation time
RevokeCertEndingValidity(f, d, serialHex, reason, t, fault) ==
    IF ~IsInitialized(f) THEN Unchanged(f, d, ErrNotInitialized)
    ELSE IF ~IndexLoads(f) THEN Unchanged(f, d, "failed to load index")
    ELSE LET index == LoadIndex(f)
             found == FindEntry(index, serialHex)
         IN IF found = 0 THEN Unchanged(f, d, ErrNotFound)
            ELSE IF AlreadyRevoked(index[found]) THEN Unchanged(f, d, ErrAlreadyRevoked)
            ELSE LET updated == [index EXCEPT ![found].status = "revoked",
                                              ![found].revoked_at = FormatRFC3339(t),
                                              ![found].revocation_reason = reason,
                                              ![found].not_after = FormatRFC3339(t)]
                     r == writeFileAtomic(f, indexPath, updated, fault)
                 IN [files |-> r.files, dirs |-> d, renamed |-> r.renamed,
                     partial |-> r.partial, out |-> <<>>,
                     err |-> IF r.err \in {"ok", "crash"} THEN r.err
                             ELSE "failed to save index"]

RevokeCert(f, d, serialHex, reason, t, fault) ==
    IF ~IsInitialized(f) THEN Unchanged(f, d, ErrNotInitialized)
    ELSE IF ~IndexLoads(f) THEN Unchanged(f, d, "failed to load index")
    ELSE LET index == LoadIndex(f)
             found == FindEntry(index, serialHex)
         IN IF found = 0 THEN Unchanged(f, d, ErrNotFound)
            ELSE IF AlreadyRevoked(index[found]) THEN Unchanged(f, d, ErrAlreadyRevoked)
            ELSE LET updated == [index EXCEPT ![found].status = "revoked",
                                              ![found].revoked_at = FormatRFC3339(t),
                                              ![found].revocation_reason = reason]
                     r == writeFileAtomic(f, indexPath, updated, fault)
                 IN [files |-> r.files, dirs |-> d, renamed |-> r.renamed,
                     partial |-> r.partial, out |-> <<>>,
                     err |-> IF r.err \in {"ok", "crash"} THEN r.err
                             ELSE "failed to save index"]

\* revoke that hands every --reason to the engine
runRevokeAnyReason(f, d, serialArg, reason, t, fault) ==
    RevokeCert(f, d, ToLower(serialArg), reason, t, fault)

\* runRevoke: lowercases the serial and rejects an unknown reason before the engine runs
runRevoke(f, d, serialArg, reason, t, fault) ==
    IF reason \notin Range(ValidReasons) THEN Unchanged(f, d, "Error: invalid reason code")
    ELSE RevokeCert(f, d, ToLower(serialArg), reason, t, fault)

(***************************************************************************)
(* GenerateCRL.  File system calls: 1..2 the stage writes, 3..4 the        *)
(* renames.                                                                *)
(***************************************************************************)
ReasonNames == [c \in {0, 1, 3, 4, 5} |->
                   CHOOSE name \in Range(ValidReasons) : ReasonCodes[name] = c]

ReasonCodeOf(reason) == IF reason \in DOMAIN ReasonCodes THEN ReasonCodes[reason] ELSE 0

\* CRL that leaves out the entries revoked for key compromise
IsRevokedEntryButCompromised(entry) ==
    entry.status = "revoked" /\ entry.revocation_reason # "keyCompromise"

IsRevokedEntry(entry) == entry.status = "revoked"

\* CRL entries made of every index entry, with not_before for the date of
\* an entry that was never revoked
RevokedEntriesUnfiltered(index) ==
    [i \in 1..Len(index) |->
        [serial |-> ParseHex(index[i].serial),
         time |-> IF index[i].revoked_at # <<>> THEN ParseRFC3339(index[i].revoked_at)
                  ELSE ParseRFC3339(index[i].not_before),
         reason |-> ReasonCodeOf(index[i].revocation_reason)]]

\* one x509.RevocationListEntry per revoked index entry, in index order
RevokedEntries(index) ==
    LET revoked == SelectSeq(index, IsRevokedEntry)
    IN [i \in 1..Len(revoked) |->
           [serial |-> ParseHex(revoked[i].serial),
            time |-> ParseRFC3339(revoked[i].revoked_at),
            reason |-> ReasonCodeOf(revoked[i].revocation_reason)]]

CRLTmpPaths == <<Tmp(crlPath), Tmp(crlnumPath)>>

\* the CRL number written back is the one that was read
NextCRLNumberStuck(crlNumber) == crlNumber

NextCRLNumber(crlNumber) == crlNumber + 1

CRLStage(crl, crlNumber) ==
    <<[tmp |-> Tmp(crlPath), data |-> crl],
      [tmp |-> Tmp(crlnumPath), data |-> FormatSerial(NextCRLNumber(crlNumber)) \o <<"\n">>]>>

\* the counter renamed before the CRL
CRLCommitOrderCounterFirst ==
    <<[tmp |-> Tmp(crlnumPath), final |-> crlnumPath],
      [tmp |-> Tmp(crlPath), final |-> crlPath]>>

CRLCommitOrder ==
    <<[tmp |-> Tmp(crlPath), final |-> crlPath],
      [tmp |-> Tmp(crlnumPath), final |-> crlnumPath]>>

GenerateCRL(f, d, nextUpdateHours, t, fault) ==
    IF ~IsInitialized(f) THEN Unchanged(f, d, ErrNotInitialized)
    ELSE IF ~IndexLoads(f) THEN Unchanged(f, d, "failed to load index")
    ELSE IF ReadCounter(f, crlnumPath) < 0 THEN Unchanged(f, d, "failed to read CRL number")
    ELSE LET index == LoadIndex(f)
             crlNumber == ReadCounter(f, crlnumPath)
             entries == RevokedEntries(index)
         IN IF \E i \in 1..Len(entries) : entries[i].serial < 0
            THEN Unchanged(f, d, "failed to parse serial")
            ELSE IF \E i \in 1..Len(entries) : entries[i].time < 0
            THEN Unchanged(f, d, "failed to parse revocation time")
            ELSE LET crl == [number |-> crlNumber, entries |-> entries,
                             issuer |-> f[certPath].subject, signedBy |-> f[keyPath].id,
                             thisUpdate |-> t,
                             nextUpdate |-> t + nextUpdateHours * SecondsPerHour]
                     r == StageThenCommit(f, CRLStage(crl, crlNumber), CRLCommitOrder,
                                          CRLTmpPaths, fault)
                 IN [files |-> r.files, dirs |-> d, err |-> r.err, renamed |-> r.renamed,
                     partial |-> r.partial,
                     out |-> IF r.err = "ok" THEN <<crlNumber, Len(entries)>> ELSE <<>>]

(***************************************************************************)
(* ListCerts and VerifyCert: read-only.                                    *)
(***************************************************************************)
\* status that takes a certificate for expired from the instant not_after on
DisplayStatusAtNotAfter(entry, t) ==
    IF entry.status = "revoked" THEN "revoked"
    ELSE IF ~(t < ParseRFC3339(entry.not_after)) THEN "expired"
    ELSE "active"

\* status that looks at the expiry before the stored status
DisplayStatusExpiredFirst(entry, t) ==
    IF t > ParseRFC3339(entry.not_after) THEN "expired"
    ELSE IF entry.status = "revoked" THEN "revoked"
    ELSE "active"

\* now.After(notAfter) decides between expired and active
DisplayStatus(entry, t) ==
    IF entry.status = "revoked" THEN "revoked"
    ELSE IF t > ParseRFC3339(entry.not_after) THEN "expired"
    ELSE "active"

\* list that removes the temporary files an interrupted command left behind
ListCertsSweeping(f, d, t) ==
    [files |-> [p \in {q \in DOMAIN f : ~IsTmp(q)} |-> f[p]], dirs |-> d,
     err |-> IF IsInitialized(f) THEN "ok" ELSE ErrNotInitialized,
     renamed |-> <<>>, partial |-> FALSE, out |-> <<>>]

ListCerts(f, d, t) ==
    IF ~IsInitialized(f) THEN Unchanged(f, d, ErrNotInitialized)
    ELSE IF ~IndexLoads(f) THEN Unchanged(f, d, "failed to load index")
    ELSE [Unchanged(f, d, "ok") EXCEPT
             !.out = [i \in 1..Len(LoadIndex(f)) |->
                         [serial |-> LoadIndex(f)[i].serial,
                          subject |-> LoadIndex(f)[i].subject,
                          not_after |-> ParseRFC3339(LoadIndex(f)[i].not_after),
                          status |-> DisplayStatus(LoadIndex(f)[i], t)]]]

\* signature check that accepts every certificate
CheckSignatureFromAnyone(cert, caCert) == TRUE

\* cert.CheckSignatureFrom(caCert)
CheckSignatureFrom(cert, caCert) == cert.signedBy = caCert.pub /\ caCert.isCA

\* lookup that finds no serial number in the CRL
FindRevokedNever(entries, serial) == 0

\* index of the first CRL entry with this serial number, 0 when there is none
FindRevoked(entries, serial) ==
    IF \E i \in 1..Len(entries) : entries[i].serial = serial
    THEN CHOOSE i \in 1..Len(entries) :
            /\ entries[i].serial = serial
            /\ \A j \in 1..(i - 1) : entries[j].serial # serial
    ELSE 0

\* validity window with its two ends left out
ExpiryOKExclusive(cert, t) == t > cert.notBefore /\ t < cert.notAfter

\* !now.Before(cert.NotBefore) && !now.After(cert.NotAfter)
ExpiryOK(cert, t) == ~(t < cert.notBefore) /\ ~(t > cert.notAfter)

\* verify that takes the revocation status from index.json
VerifyCertFromIndex(f, d, input, t) ==
    IF ~IsInitialized(f) THEN Unchanged(f, d, ErrNotInitialized)
    ELSE IF ~input.pem THEN Unchanged(f, d, "failed to decode PEM")
    ELSE IF ~input.der THEN Unchanged(f, d, "failed to parse certificate")
    ELSE LET cert == input.cert
             caCert == f[certPath]
             sigOK == CheckSignatureFrom(cert, caCert)
             expiryOK == ExpiryOK(cert, t)
             index == IF Exists(f, indexPath) THEN LoadIndex(f) ELSE <<>>
             hits == {i \in 1..Len(index) : /\ ParseHex(index[i].serial) = cert.serial
                                            /\ index[i].status = "revoked"}
             isRevoked == hits # {}
             revStatus == IF isRevoked
                          THEN LET hit == CHOOSE i \in hits : TRUE
                               IN <<"REVOKED", index[hit].revocation_reason,
                                    index[hit].revoked_at>>
                          ELSE <<"OK (not revoked)">>
         IN [Unchanged(f, d, "ok") EXCEPT
                !.out = IF ~sigOK
                        THEN [valid |-> FALSE, serial |-> FormatSerial(cert.serial),
                              sigOK |-> FALSE, expiryOK |-> FALSE, revStatus |-> <<>>]
                        ELSE [valid |-> sigOK /\ expiryOK /\ ~isRevoked,
                              serial |-> FormatSerial(cert.serial),
                              sigOK |-> TRUE, expiryOK |-> expiryOK,
                              revStatus |-> revStatus]]

VerifyCert(f, d, input, t) ==
    IF ~IsInitialized(f) THEN Unchanged(f, d, ErrNotInitialized)
    ELSE IF ~input.pem THEN Unchanged(f, d, "failed to decode PEM")
    ELSE IF ~input.der THEN Unchanged(f, d, "failed to parse certificate")
    ELSE LET cert == input.cert
             caCert == f[certPath]
             sigOK == CheckSignatureFrom(cert, caCert)
             expiryOK == ExpiryOK(cert, t)
             hasCRL == Exists(f, crlPath)
             hit == IF hasCRL THEN FindRevoked(f[crlPath].entries, cert.serial) ELSE 0
             isRevoked == hit > 0
             revStatus == IF ~hasCRL THEN <<"NOT CHECKED (no CRL available)">>
                          ELSE IF isRevoked
                          THEN <<"REVOKED", ReasonNames[f[crlPath].entries[hit].reason],
                                 FormatRFC3339(f[crlPath].entries[hit].time)>>
                          ELSE <<"OK (not revoked)">>
         IN [Unchanged(f, d, "ok") EXCEPT
                !.out = IF ~sigOK
                        THEN [valid |-> FALSE, serial |-> FormatSerial(cert.serial),
                              sigOK |-> FALSE, expiryOK |-> FALSE, revStatus |-> <<>>]
                        ELSE [valid |-> sigOK /\ expiryOK /\ ~isRevoked,
                              serial |-> FormatSerial(cert.serial),
                              sigOK |-> TRUE, expiryOK |-> expiryOK,
                              revStatus |-> revStatus]]

(***************************************************************************)
(* Distinguished names: a pkix.Name is a record of its common name and of  *)
(* the value lists of O, OU, L, ST and C; a DN string is a sequence of     *)
(* characters.                                                             *)
(***************************************************************************)
EmptyName == [CommonName |-> <<>>, Organization |-> <<>>, OrganizationalUnit |-> <<>>,
              Locality |-> <<>>, Province |-> <<>>, Country |-> <<>>]

\* strings.Index(s, c) for a one-character c, counted from 1; 0 when c is not in s
IndexOf(s, c) ==
    IF \E i \in 1..Len(s) : s[i] = c
    THEN CHOOSE i \in 1..Len(s) : s[i] = c /\ \A j \in 1..(i - 1) : s[j] # c
    ELSE 0

\* strings.Split(s, sep) for a one-character sep
RECURSIVE Split(_, _)
Split(s, sep) ==
    IF IndexOf(s, sep) = 0 THEN <<s>>
    ELSE <<SubSeq(s, 1, IndexOf(s, sep) - 1)>>
         \o Split(SubSeq(s, IndexOf(s, sep) + 1, Len(s)), sep)

\* strings.Join(parts, sep)
RECURSIVE Join(_, _)
Join(parts, sep) ==
    IF parts = <<>> THEN <<>>
    ELSE IF Len(parts) = 1 THEN parts[1]
    ELSE parts[1] \o sep \o Join(Tail(parts), sep)

\* strings.ToUpper on the letters of the attribute types
UpperLetter(c) ==
    CASE c = "c" -> "C" [] c = "n" -> "N" [] c = "o" -> "O" [] c = "u" -> "U"
      [] c = "l" -> "L" [] c = "s" -> "S" [] c = "t" -> "T" [] OTHER -> c
ToUpper(s) == [i \in 1..Len(s) |-> UpperLetter(s[i])]

\* switch that files the value of ST under L
AttrFieldProvinceAsLocality(attrType) ==
    CASE attrType = <<"C", "N">> -> "CommonName"
      [] attrType = <<"O">> -> "Organization"
      [] attrType = <<"O", "U">> -> "OrganizationalUnit"
      [] attrType = <<"L">> -> "Locality"
      [] attrType = <<"S", "T">> -> "Locality"
      [] attrType = <<"C">> -> "Country"
      [] OTHER -> ""

\* the field of pkix.Name an attribute type sets; "" for an unknown type
AttrField(attrType) ==
    CASE attrType = <<"C", "N">> -> "CommonName"
      [] attrType = <<"O">> -> "Organization"
      [] attrType = <<"O", "U">> -> "OrganizationalUnit"
      [] attrType = <<"L">> -> "Locality"
      [] attrType = <<"S", "T">> -> "Province"
      [] attrType = <<"C">> -> "Country"
      [] OTHER -> ""

\* name.CommonName = attrValue, or append(name.<field>, attrValue)
SetAttr(name, field, attrValue) ==
    IF field = "CommonName" THEN [name EXCEPT !.CommonName = attrValue]
    ELSE [name EXCEPT ![field] = Append(@, attrValue)]

\* the loop of ParseDN over the components
RECURSIVE ParseParts(_, _)
ParseParts(parts, name) ==
    IF parts = <<>> THEN [err |-> "ok", name |-> name]
    ELSE LET part == TrimSpace(Head(parts))
             idx == IndexOf(part, "=")
             attrType == TrimSpace(SubSeq(part, 1, idx - 1))
             attrValue == TrimSpace(SubSeq(part, idx + 1, Len(part)))
         IN IF part = <<>> THEN ParseParts(Tail(parts), name)
            ELSE IF idx = 0 THEN [err |-> "invalid DN component (missing '=')", name |-> name]
            ELSE IF attrValue = <<>> THEN [err |-> "empty value for attribute", name |-> name]
            ELSE IF AttrField(ToUpper(attrType)) = ""
            THEN [err |-> "unknown attribute type", name |-> name]
            ELSE ParseParts(Tail(parts),
                            SetAttr(name, AttrField(ToUpper(attrType)), attrValue))

ParseDN(text) ==
    IF TrimSpace(text) = <<>>
    THEN [err |-> "distinguished name cannot be empty", name |-> EmptyName]
    ELSE ParseParts(Split(text, ","), EmptyName)

\* one "TYPE=value" component per value
DNParts(attrType, values) == [i \in 1..Len(values) |-> attrType \o <<"=">> \o values[i]]

\* output order CN, O, OU, L, ST, C; an empty common name is skipped
FormatDN(name) ==
    Join((IF name.CommonName # <<>> THEN DNParts(<<"C", "N">>, <<name.CommonName>>) ELSE <<>>)
         \o DNParts(<<"O">>, name.Organization)
         \o DNParts(<<"O", "U">>, name.OrganizationalUnit)
         \o DNParts(<<"L">>, name.Locality)
         \o DNParts(<<"S", "T">>, name.Province)
         \o DNParts(<<"C">>, name.Country),
         <<",">>)

(***************************************************************************)
(* GenerateCSR (ca request).  File system calls: 1 the write of            *)
(* <out-key>.tmp, 2 its rename (SavePrivateKey is writeFileAtomic), 3      *)
(* os.WriteFile of the CSR onto <out-csr> itself.  A fault at call 3 that  *)
(* is torn left the file opened and truncated, with part of the text.      *)
(***************************************************************************)
RequestKey(keyAlgo) == [id |-> "leaf", algo |-> keyAlgo]

\* x509.CreateCertificateRequest: the request, signed by its own key
CertificateRequest(subject, keyAlgo) ==
    [pem |-> TRUE, der |-> TRUE, sigOK |-> TRUE, pubAlgo |-> keyAlgo, pub |-> "leaf",
     subject |-> subject]

\* what a file holds that os.WriteFile began to write: no whole PEM block
TornCSR(csr) == [csr EXCEPT !.pem = FALSE, !.der = FALSE]

GenerateCSR(f, d, subject, keyAlgo, outKeyPath, outCSRPath, fault, torn) ==
    IF keyAlgo \notin {"ecdsa-p256", "rsa-2048"}
    THEN Unchanged(f, d, "failed to generate key pair")
    ELSE LET csr == CertificateRequest(subject, keyAlgo)
             k == writeFileAtomic(f, outKeyPath, RequestKey(keyAlgo),
                                  IF fault.at <= 2 THEN fault ELSE NoFault)
         IN IF fault.kind # "none" /\ fault.at <= 2
            THEN [files |-> k.files, dirs |-> d, renamed |-> k.renamed, partial |-> k.partial,
                  out |-> <<>>,
                  err |-> IF k.err = "crash" THEN "crash" ELSE "failed to save private key"]
            ELSE IF fault.kind = "none"
            THEN [files |-> WriteFile(k.files, outCSRPath, csr), dirs |-> d,
                  renamed |-> k.renamed, partial |-> FALSE, out |-> <<outKeyPath, outCSRPath>>,
                  err |-> "ok"]
            ELSE [files |-> IF torn THEN WriteFile(k.files, outCSRPath, TornCSR(csr))
                            ELSE k.files,
                  dirs |-> d, renamed |-> k.renamed, partial |-> TRUE, out |-> <<>>,
                  err |-> IF fault.kind = "crash" THEN "crash" ELSE "failed to write CSR"]

(***************************************************************************)
(* Inputs of the commands.                                                 *)
(***************************************************************************)
Subjects == {"CN=Root"}
ValidityDays == {1}
NextUpdateHours == {24}

GoodCSR == [pem |-> TRUE, der |-> TRUE, sigOK |-> TRUE, pubAlgo |-> "ecdsa-p256",
            pub |-> "leaf", subject |-> "CN=leaf"]
CSRs == {GoodCSR,
         [GoodCSR EXCEPT !.sigOK = FALSE],
         [GoodCSR EXCEPT !.pubAlgo = "rsa-1024"]}

KeyAlgos == {"ecdsa-p256"}
SerialArgs == {<<"0", "2">>, <<"0", "3">>}
ReasonArgs == {"keyCompromise", "superseded", "bogus"}

ForeignCert == [serial |-> 2, subject |-> "CN=leaf", issuer |-> "CN=Other", pub |-> "leaf",
                signedBy |-> 0, notBefore |-> 0, notAfter |-> SecondsPerDay, isCA |-> FALSE]

\* what verify can be given: a certificate file of certs/, a certificate of
\* another CA, a file that is not PEM
VerifyInputs(f) ==
    {[pem |-> TRUE, der |-> TRUE, cert |-> f[p]] :
        p \in {q \in DOMAIN f : Len(q) > 1 /\ q[1] = "certs" /\ ~IsTmp(q)}}
    \cup {[pem |-> TRUE, der |-> TRUE, cert |-> ForeignCert],
          [pem |-> FALSE, der |-> FALSE, cert |-> ForeignCert]}

\* values of name attributes: plain, with an equals sign, with a comma, with
\* a leading space, and the empty string
DNValues == {<<"a">>, <<"b", "=", "c">>, <<"a", ",", "b">>, <<" ", "a">>, <<>>}

SeqsUpTo(S, n) == UNION {[1..k -> S] : k \in 0..n}

\* the structured names given to FormatDN
Names == [CommonName : DNValues,
          Organization : SeqsUpTo(DNValues, MaxValues),
          OrganizationalUnit : SeqsUpTo({<<"x">>}, 1),
          Locality : SeqsUpTo({<<"x">>}, 1),
          Province : SeqsUpTo({<<"x">>}, 1),
          Country : SeqsUpTo({<<"x">>}, 1)]

\* --out-key and --out-csr of ca request, --subject of the request
OutKeyPaths == {<<"leaf.key">>, <<"other.key">>}
OutCSRPaths == {<<"leaf.csr">>, <<"other.csr">>}
RequestSubjects == {"CN=leaf"}

\* every CSR file sign can be given: PEM or not, PKCS#10 or not, signature
\* valid or not, with each kind of public key
AllCSRs == [pem : BOOLEAN, der : BOOLEAN, sigOK : BOOLEAN,
            pubAlgo : {"ecdsa-p256", "rsa-2048", "rsa-1024", "ecdsa-p384"},
            pub : {"leaf"}, subject : {"CN=leaf"}]

(***************************************************************************)
(* The state machine.                                                      *)
(***************************************************************************)
ValidationErrors == {ErrAlreadyInitialized, ErrNotInitialized, ErrParseCSR, ErrCSRSignature,
                     ErrCSRKeyAlgo, ErrNotFound, ErrAlreadyRevoked,
                     "Error: invalid reason code"}

\* no name is being formatted or parsed
NoDN == [stage |-> "none"]

\* initDone: an init returned success; crashed: a command was killed after it
\* started to write; signCut, crlCut: a sign, a crl was cut short after its
\* first rename; crlCalls: the crl calls that returned success; crlNums: the
\* crlNumber of every CRL renamed to ca.crl, in order
NoHist == [initDone |-> FALSE, crashed |-> FALSE, signCut |-> FALSE, crlCut |-> FALSE,
           crlCalls |-> 0, crlNums |-> <<>>]

Init ==
    /\ files = [p \in {} |-> <<>>]
    /\ dirs \in {{}, {dataDirPath}}
    /\ now = 0
    /\ faults = 0
    /\ hist = NoHist
    /\ dn = NoDN

\* the faults a command can meet, among the kinds allowed: none when it stops
\* in its validate phase (r0 is what it returns when no call fails)
FaultsFor(r0, n, kinds) ==
    IF r0.err = "ok" THEN {NoFault} \cup [kind : kinds, at : 1..n] ELSE {NoFault}

Crashed(h, r) == [h EXCEPT !.crashed = @ \/ (r.err = "crash" /\ r.partial)]

\* a command ran and returned r
Ran(r) ==
    /\ r.partial => faults < MaxFaults
    /\ files' = r.files
    /\ dirs' = r.dirs
    /\ faults' = IF r.partial THEN faults + 1 ELSE faults
    /\ now' = now
    /\ dn' = dn

InitCmd(kinds) ==
    \E subject \in Subjects, keyAlgo \in KeyAlgos, days \in ValidityDays :
      \E fault \in FaultsFor(InitCA(files, dirs, subject, keyAlgo, days, now, NoFault), 11, kinds) :
        LET r == InitCA(files, dirs, subject, keyAlgo, days, now, fault)
        IN /\ Ran(r)
           /\ hist' = [Crashed(hist, r) EXCEPT !.initDone = @ \/ r.err = "ok"]

SignCmd(kinds) ==
    \E csr \in CSRs, days \in ValidityDays :
      \E fault \in FaultsFor(SignCSR(files, dirs, csr, days, now, NoFault), 6, kinds) :
        LET r == SignCSR(files, dirs, csr, days, now, fault)
        IN /\ ReadCounter(files, serialPath) < MaxSerial
           /\ Ran(r)
           /\ hist' = [Crashed(hist, r) EXCEPT
                          !.signCut = @ \/ (r.err # "ok" /\ r.renamed # <<>>)]

RevokeWith(kinds, reasons) ==
    \E serialArg \in SerialArgs, reason \in reasons :
      \E fault \in FaultsFor(runRevoke(files, dirs, serialArg, reason, now, NoFault), 2, kinds) :
        LET r == runRevoke(files, dirs, serialArg, reason, now, fault)
        IN /\ Ran(r)
           /\ hist' = Crashed(hist, r)

RevokeCmd(kinds) == RevokeWith(kinds, ReasonArgs)

CRLCmd(kinds) ==
    \E hours \in NextUpdateHours :
      \E fault \in FaultsFor(GenerateCRL(files, dirs, hours, now, NoFault), 4, kinds) :
        LET r == GenerateCRL(files, dirs, hours, now, fault)
        IN /\ ReadCounter(files, crlnumPath) < MaxCRLNumber
           /\ Ran(r)
           /\ hist' = [Crashed(hist, r) EXCEPT
                          !.crlCut = @ \/ (r.err # "ok" /\ r.renamed # <<>>),
                          !.crlCalls = IF r.err = "ok" THEN @ + 1 ELSE @,
                          !.crlNums = IF crlPath \in Range(r.renamed)
                                      THEN Append(@, r.files[crlPath].number) ELSE @]

DoList ==
    /\ Ran(ListCerts(files, dirs, now))
    /\ hist' = hist

DoVerify ==
    \E input \in VerifyInputs(files) :
        /\ Ran(VerifyCert(files, dirs, input, now))
        /\ hist' = hist

\* a second passes
Tick ==
    /\ now % SecondsPerDay < MaxNow
    /\ now' = now + 1
    /\ UNCHANGED <<files, dirs, faults, hist, dn>>

\* a day passes in the life of the CA
Sleep ==
    /\ IsInitialized(files)
    /\ now < MaxDays * SecondsPerDay
    /\ now' = now + SecondsPerDay
    /\ UNCHANGED <<files, dirs, faults, hist, dn>>

(***************************************************************************)
(* Spec: every command, with failing file system calls and crashes, at a   *)
(* fixed instant.                                                          *)
(***************************************************************************)
AnyFault == {"fail", "crash"}
DoInit == InitCmd(AnyFault)
DoSign == SignCmd(AnyFault)
DoRevoke == RevokeCmd(AnyFault)
DoCRL == CRLCmd(AnyFault)

Next == DoInit \/ DoSign \/ DoRevoke \/ DoCRL \/ DoList \/ DoVerify

Spec == Init /\ [][Next]_vars

(***************************************************************************)
(* SpecClock: every command while time passes; init, sign and crl run to   *)
(* their end, revoke with failing file system calls and crashes.           *)
(***************************************************************************)
InitRuns == InitCmd({})
SignRuns == SignCmd({})
CRLRuns == CRLCmd({})

NextClock == InitRuns \/ SignRuns \/ DoRevoke \/ CRLRuns \/ DoList \/ DoVerify \/ Tick

SpecClock == Init /\ [][NextClock]_vars

(***************************************************************************)
(* SpecVerify: commands that run to their end while seconds and days pass, *)
(* so that certificates expire.  Only differences of instants matter to    *)
(* the commands: the clock is read from the instant of init.               *)
(***************************************************************************)
RevokeRuns == RevokeWith({}, {"keyCompromise"})

\* a second passes in the life of the CA
TickCA == IsInitialized(files) /\ Tick

NextVerify == InitRuns \/ SignRuns \/ RevokeRuns \/ CRLRuns \/ DoVerify \/ TickCA \/ Sleep

SpecVerify == Init /\ [][NextVerify]_vars

(***************************************************************************)
(* SpecList: init, sign, revoke and list run to their end while seconds    *)
(* and days pass, so that the entries list shows expire.                   *)
(***************************************************************************)
NextList == InitRuns \/ SignRuns \/ RevokeRuns \/ DoList \/ TickCA \/ Sleep

SpecList == Init /\ [][NextList]_vars

(***************************************************************************)
(* SpecRequest: ca request with failing file system calls and crashes,     *)
(* init, and sign of the CSR files that request wrote.                     *)
(***************************************************************************)
DoRequest ==
    \E subject \in RequestSubjects, keyAlgo \in KeyAlgos,
       outKeyPath \in OutKeyPaths, outCSRPath \in OutCSRPaths,
       fault \in Faults(3), torn \in BOOLEAN :
        LET r == GenerateCSR(files, dirs, subject, keyAlgo, outKeyPath, outCSRPath, fault, torn)
        IN /\ Ran(r)
           /\ hist' = Crashed(hist, r)

\* runSign: os.ReadFile of the CSR file, then SignCSR
SignFile ==
    \E csrFile \in OutCSRPaths, days \in ValidityDays :
        /\ Exists(files, csrFile)
        /\ ReadCounter(files, serialPath) < MaxSerial
        /\ Ran(SignCSR(files, dirs, files[csrFile], days, now, NoFault))
        /\ hist' = hist

NextRequest == InitRuns \/ DoRequest \/ SignFile

SpecRequest == Init /\ [][NextRequest]_vars

(***************************************************************************)
(* SpecCounter: the two counter files of the data directory through a      *)
(* series of sign and crl commands that run to their end.  Of the          *)
(* directory only serial and crlnumber are kept, with the text init, sign  *)
(* and crl write to them.                                                  *)
(***************************************************************************)
InitCounter ==
    /\ files = [p \in {serialPath, crlnumPath} |->
                   IF p = serialPath THEN InitStage(<<>>, <<>>)[3].data
                   ELSE InitStage(<<>>, <<>>)[4].data]
    /\ dirs = {dataDirPath, certsDirPath}
    /\ now = 0
    /\ faults = 0
    /\ hist = NoHist
    /\ dn = NoDN

\* what a sign does to serial: ReadCounter, then the staged text renamed in place
AdvanceSerial ==
    LET serialVal == ReadCounter(files, serialPath)
    IN /\ serialVal >= 0
       /\ serialVal < MaxCounter
       /\ files' = [files EXCEPT ![serialPath] = SignStage(serialVal, <<>>, <<>>)[1].data]
       /\ UNCHANGED <<dirs, now, faults, hist, dn>>

\* what a crl does to crlnumber
AdvanceCRLNumber ==
    LET crlNumber == ReadCounter(files, crlnumPath)
    IN /\ crlNumber >= 0
       /\ crlNumber < MaxCRLNumber
       /\ files' = [files EXCEPT ![crlnumPath] = CRLStage(<<>>, crlNumber)[2].data]
       /\ UNCHANGED <<dirs, now, faults, hist, dn>>

NextCounter == AdvanceSerial \/ AdvanceCRLNumber

SpecCounter == InitCounter /\ [][NextCounter]_vars

(***************************************************************************)
(* SpecDN: a structured name is formatted by FormatDN and the text parsed  *)
(* by ParseDN.                                                             *)
(***************************************************************************)
InitDN ==
    /\ files = [p \in {} |-> <<>>]
    /\ dirs = {}
    /\ now = 0
    /\ faults = 0
    /\ hist = NoHist
    /\ dn \in {[stage |-> "name", name |-> name] : name \in Names}

FormatStep ==
    /\ dn.stage = "name"
    /\ dn' = [stage |-> "text", name |-> dn.name, text |-> FormatDN(dn.name)]
    /\ UNCHANGED <<files, dirs, now, faults, hist>>

ParseStep ==
    /\ dn.stage = "text"
    /\ dn' = [stage |-> "parsed", name |-> dn.name, text |-> dn.text,
              parsed |-> ParseDN(dn.text)]
    /\ UNCHANGED <<files, dirs, now, faults, hist>>

NextDN == FormatStep \/ ParseStep

SpecDN == InitDN /\ [][NextDN]_vars

(***************************************************************************)
(* What the directory holds, for the properties below.                     *)
(***************************************************************************)
Index(f) == IF IndexLoads(f) THEN LoadIndex(f) ELSE <<>>
CertFiles(f) == {p \in DOMAIN f : Len(p) > 1 /\ p[1] = "certs" /\ ~IsTmp(p)}
FinalPaths(f) == {p \in DOMAIN f : ~IsTmp(p)}
SameFiles(f, g) == DOMAIN f = DOMAIN g /\ \A p \in DOMAIN f : f[p] = g[p]
SameFinalFiles(f, g) ==
    FinalPaths(f) = FinalPaths(g) /\ \A p \in FinalPaths(f) : f[p] = g[p]
IsPrefix(s, t) == Len(s) <= Len(t) /\ \A i \in 1..Len(s) : s[i] = t[i]
IndexSerials(f) == {ParseHex(Index(f)[i].serial) : i \in 1..Len(Index(f))}
CertSerials(f) == {f[p].serial : p \in CertFiles(f)}

\* P holds of what every command returns when run in the current state, with
\* every input, whichever of its file system calls fails
EveryCall(P(_)) ==
    /\ \A subject \in Subjects, keyAlgo \in KeyAlgos, days \in ValidityDays, fault \in Faults(11) :
          P(InitCA(files, dirs, subject, keyAlgo, days, now, fault))
    /\ \A csr \in CSRs, days \in ValidityDays, fault \in Faults(6) :
          P(SignCSR(files, dirs, csr, days, now, fault))
    /\ \A serialArg \in SerialArgs, reason \in ReasonArgs, fault \in Faults(2) :
          P(runRevoke(files, dirs, serialArg, reason, now, fault))
    /\ \A hours \in NextUpdateHours, fault \in Faults(4) :
          P(GenerateCRL(files, dirs, hours, now, fault))
    /\ P(ListCerts(files, dirs, now))
    /\ \A input \in VerifyInputs(files) : P(VerifyCert(files, dirs, input, now))

ReturnsError(r) == r.err \notin {"ok", "crash"}

(***************************************************************************)
(* C1.                                                                     *)
(***************************************************************************)
\* the step taken is what the call r leaves behind when it returns an error,
\* and the files under their final names are those of before the step
ErrorStepKeepsFiles(r) ==
    (ReturnsError(r) /\ SameFiles(files', r.files)) => SameFinalFiles(files', files)

\* C1: a command that returns an error (a failed precondition, a failed write
\* of the stage phase, a failed rename of the commit phase) leaves serial,
\* crlnumber, index.json, ca.key, ca.crt, ca.crl and the files of certs/ as
\* they were before the call.
C1_ErrorLeavesStateUnchanged == [][EveryCall(ErrorStepKeepsFiles)]_vars

(***************************************************************************)
(* C2, C3.                                                                 *)
(***************************************************************************)
\* C2: in every reachable state, those left by a crash or a failed rename of
\* InitCA included, when the marker holds (ca.key and ca.crt exist) then
\* serial, crlnumber and index.json exist.
C2_MarkerImpliesSupportFiles ==
    IsInitialized(files) =>
        Exists(files, serialPath) /\ Exists(files, crlnumPath) /\ Exists(files, indexPath)

ClaimedInitOrder == <<serialPath, crlnumPath, indexPath, keyPath, certPath>>

\* C3: InitCA renames its five files in the order serial, crlnumber,
\* index.json, ca.key, ca.crt: in every reachable state a file of that list
\* exists only when those before it in the list exist.
C3_InitCommitOrder ==
    \A i \in 1..Len(ClaimedInitOrder) :
        Exists(files, ClaimedInitOrder[i]) =>
            \A j \in 1..(i - 1) : Exists(files, ClaimedInitOrder[j])

(***************************************************************************)
(* C4, C5.                                                                 *)
(***************************************************************************)
\* the certificate files and index entries a sign adds carry a serial that no
\* certificate file and no index entry carried before
SignTakesFreshSerial(r) ==
    /\ \A p \in CertFiles(r.files) \ CertFiles(files) :
          r.files[p].serial \notin CertSerials(files) \cup IndexSerials(files)
    /\ \A i \in (Len(Index(files)) + 1)..Len(Index(r.files)) :
          ParseHex(Index(r.files)[i].serial) \notin IndexSerials(files)

\* C4: in every reachable state, those left by a crash or a failed rename of
\* sign included, no two index entries and no two certificate files carry the
\* same serial, the serial file is strictly greater than the serial of every
\* index entry and certificate file, and a sign run from that state, wherever
\* it is cut short, assigns a serial that was never assigned.
C4_SerialNeverReused ==
    /\ \A i, j \in 1..Len(Index(files)) :
          Index(files)[i].serial = Index(files)[j].serial => i = j
    /\ \A p, q \in CertFiles(files) : files[p].serial = files[q].serial => p = q
    /\ \A n \in IndexSerials(files) \cup CertSerials(files) :
          Exists(files, serialPath) /\ n < ReadCounter(files, serialPath)
    /\ \A csr \in CSRs, days \in ValidityDays, fault \in Faults(6) :
          SignTakesFreshSerial(SignCSR(files, dirs, csr, days, now, fault))

\* a sign was cut short after the certificate file was renamed and before the
\* index was: certs/ holds a certificate the index does not list, next to one
\* it lists
C4_Witness ==
    /\ Len(Index(files)) >= 1
    /\ \E p \in CertFiles(files) : files[p].serial \notin IndexSerials(files)

\* C5: after a successful init, as long as no sign was cut short after its
\* first rename, the serial file equals 2 + the number of index entries and
\* 2 + the number of certificate files, whatever the other commands did.
C5_SerialCountsCertificates ==
    (hist.initDone /\ ~hist.signCut) =>
        /\ ReadCounter(files, serialPath) = 2 + Len(Index(files))
        /\ ReadCounter(files, serialPath) = 2 + Cardinality(CertFiles(files))

\* two signs succeeded, one certificate was revoked and a CRL was generated
C5_Witness ==
    /\ hist.initDone /\ ~hist.signCut
    /\ Len(Index(files)) = 2
    /\ \E i \in 1..Len(Index(files)) : Index(files)[i].status = "revoked"
    /\ Exists(files, crlPath)

(***************************************************************************)
(* C6.                                                                     *)
(***************************************************************************)
\* C6: in every step, an index entry that is revoked keeps its place, its
\* serial, its status "revoked" and its revoked_at and revocation_reason,
\* which are not empty.
C6_RevokedIsFinal ==
    [][\A i \in 1..Len(Index(files)) :
          Index(files)[i].status = "revoked" =>
              /\ Index(files)[i].revoked_at # EmptyString
              /\ Index(files)[i].revocation_reason # ""
              /\ i <= Len(Index(files'))
              /\ Index(files')[i].serial = Index(files)[i].serial
              /\ Index(files')[i].status = "revoked"
              /\ Index(files')[i].revoked_at = Index(files)[i].revoked_at
              /\ Index(files')[i].revocation_reason = Index(files)[i].revocation_reason]_vars

\* an entry was revoked at an earlier second than the current one, so that a
\* revoke that went through now would write another revoked_at
C6_Witness ==
    \E i \in 1..Len(Index(files)) :
        /\ Index(files)[i].status = "revoked"
        /\ ParseRFC3339(Index(files)[i].revoked_at) < now

(***************************************************************************)
(* C7, C8, C9.                                                             *)
(***************************************************************************)
\* C7: after a successful init, as long as no crl was cut short after its
\* first rename, the crlnumber file equals 1 + the number of crl calls that
\* succeeded, and the CRLs generated carry the numbers 1, 2, 3, ... in order.
C7_CRLNumberCountsCRLs ==
    (hist.initDone /\ ~hist.crlCut) =>
        /\ ReadCounter(files, crlnumPath) = 1 + hist.crlCalls
        /\ hist.crlNums = [i \in 1..hist.crlCalls |-> i]

\* two CRLs were generated
C7_Witness == hist.initDone /\ ~hist.crlCut /\ hist.crlCalls = 2

\* the renames a crl did are the first of: ca.crl, crlnumber; and a crl that
\* succeeds publishes a CRL carrying the number the crlnumber file held
CRLRenamesCRLFirst(r) ==
    /\ IsPrefix(r.renamed, <<crlPath, crlnumPath>>)
    /\ r.err = "ok" => r.files[crlPath].number = ReadCounter(files, crlnumPath)

\* C8: GenerateCRL renames ca.crl before crlnumber, and in every reachable
\* state where ca.crl exists, those left by a crash or a failed rename between
\* the two renames included, the number in ca.crl is the crlnumber file minus
\* one or the crlnumber file itself; then the next crl reuses that number.
C8_CRLBeforeCounter ==
    /\ Exists(files, crlPath) =>
          /\ Exists(files, crlnumPath)
          /\ files[crlPath].number \in {ReadCounter(files, crlnumPath) - 1,
                                        ReadCounter(files, crlnumPath)}
    /\ \A hours \in NextUpdateHours, fault \in Faults(4) :
          CRLRenamesCRLFirst(GenerateCRL(files, dirs, hours, now, fault))

\* a crl was cut short between its two renames and the next crl succeeded:
\* two CRLs in a row carry the same number
C8_Witness ==
    /\ Len(hist.crlNums) >= 2
    /\ hist.crlNums[1] = hist.crlNums[2]
    /\ files[crlPath].number = ReadCounter(files, crlnumPath) - 1

\* the CRL a successful crl leaves lists the revoked entries of the index and
\* no other, each with the reason code and the time the index records
CRLListsRevoked(r) ==
    r.err = "ok" =>
        LET entries == r.files[crlPath].entries
            index == Index(r.files)
        IN /\ \A i \in 1..Len(index) :
                  index[i].status = "revoked" <=>
                      \E k \in 1..Len(entries) : entries[k].serial = ParseHex(index[i].serial)
           /\ \A k \in 1..Len(entries) :
                  \E i \in 1..Len(index) :
                      /\ index[i].status = "revoked"
                      /\ ParseHex(index[i].serial) = entries[k].serial
                      /\ ReasonCodes[index[i].revocation_reason] = entries[k].reason
                      /\ FormatRFC3339(entries[k].time) = index[i].revoked_at
           /\ \A k, l \in 1..Len(entries) : entries[k].serial = entries[l].serial => k = l

\* C9: a crl that succeeds, run from any reachable state, leaves a ca.crl
\* whose serials are exactly those of the index entries with status "revoked"
\* (none when there is none), each with the reason code and the revocation
\* time of the index.
C9_CRLListsExactlyRevoked ==
    \A hours \in NextUpdateHours : CRLListsRevoked(GenerateCRL(files, dirs, hours, now, NoFault))

\* a CRL was generated while the index held a revoked and an active entry,
\* the revocation being older than the CRL
C9_Witness ==
    /\ Exists(files, crlPath)
    /\ Len(files[crlPath].entries) = 1
    /\ files[crlPath].entries[1].time < files[crlPath].thisUpdate
    /\ \E i, j \in 1..Len(Index(files)) :
          /\ Index(files)[i].status = "revoked"
          /\ ParseHex(Index(files)[i].serial) = files[crlPath].entries[1].serial
          /\ Index(files)[j].status = "active"

(***************************************************************************)
(* C10.                                                                    *)
(***************************************************************************)
\* C10: in every state reached by commands that returned (none was killed),
\* every index entry with serial S has its file certs/S.pem and every
\* certificate file of certs/ has an index entry with its serial.
C10_IndexMatchesCerts ==
    ~hist.crashed =>
        /\ \A i \in 1..Len(Index(files)) : Exists(files, certFilePath(Index(files)[i].serial))
        /\ \A p \in CertFiles(files) : files[p].serial \in IndexSerials(files)

(***************************************************************************)
(* C11.                                                                    *)
(***************************************************************************)
\* the renames a sign did are the first of: serial, certs/<hex(N)>.pem,
\* index.json, N being the value the serial file held
SignRenamesInOrder(r) ==
    r.renamed # <<>> =>
        IsPrefix(r.renamed,
                 <<serialPath, certFilePath(FormatSerial(ReadCounter(files, serialPath))),
                   indexPath>>)

\* C11: SignCSR renames serial, then certs/<hex(N)>.pem, then index.json, and
\* in every reachable state, those left by a crash between two renames
\* included, every index entry with serial S has its file certs/S.pem and the
\* serial file holds a value greater than S.
C11_IndexEntryVisibleLast ==
    /\ \A i \in 1..Len(Index(files)) :
          /\ Exists(files, certFilePath(Index(files)[i].serial))
          /\ Exists(files, serialPath)
          /\ ParseHex(Index(files)[i].serial) < ReadCounter(files, serialPath)
    /\ \A csr \in CSRs, days \in ValidityDays, fault \in Faults(6) :
          SignRenamesInOrder(SignCSR(files, dirs, csr, days, now, fault))

\* after a sign that succeeded, a sign was cut short after the rename of
\* serial and before the rename of its certificate
C11_Witness ==
    /\ Len(Index(files)) >= 1
    /\ ReadCounter(files, serialPath) > 2 + Cardinality(CertFiles(files))

(***************************************************************************)
(* C12, C13.                                                               *)
(***************************************************************************)
\* a call that stops in its validate phase leaves every file, the .tmp files
\* included, and every directory as they were
ValidationFailureChangesNothing(r) ==
    r.err \in ValidationErrors => SameFiles(r.files, files) /\ r.dirs = dirs

StageFailureIsClean(r, tmpPaths) ==
    /\ ReturnsError(r)
    /\ \A i \in 1..Len(tmpPaths) : ~Exists(r.files, tmpPaths[i])
    /\ SameFinalFiles(r.files, files)

\* C13: in init, sign and crl, when a write of the stage sub-phase fails the
\* command returns an error, none of its .tmp files is left and no file under
\* a final name was created or modified.
C13_StageFailureIsClean ==
    /\ \A subject \in Subjects, keyAlgo \in KeyAlgos, days \in ValidityDays, at \in 2..6 :
          InitCA(files, dirs, subject, keyAlgo, days, now, NoFault).err = "ok" =>
              StageFailureIsClean(InitCA(files, dirs, subject, keyAlgo, days, now,
                                         [kind |-> "fail", at |-> at]), InitTmpPaths)
    /\ \A csr \in CSRs, days \in ValidityDays, at \in 1..3 :
          SignCSR(files, dirs, csr, days, now, NoFault).err = "ok" =>
              StageFailureIsClean(SignCSR(files, dirs, csr, days, now,
                                          [kind |-> "fail", at |-> at]),
                                  SignTmpPaths(FormatSerial(ReadCounter(files, serialPath))))
    /\ \A hours \in NextUpdateHours, at \in 1..2 :
          GenerateCRL(files, dirs, hours, now, NoFault).err = "ok" =>
              StageFailureIsClean(GenerateCRL(files, dirs, hours, now,
                                              [kind |-> "fail", at |-> at]), CRLTmpPaths)

\* an init failed before any of its renames: it left the certs/ directory and
\* no file
C13_Witness ==
    /\ certsDirPath \in dirs
    /\ DOMAIN files = {}
    /\ faults = 0

(***************************************************************************)
(* C14.                                                                    *)
(***************************************************************************)
\* the .tmp files an init has written, or started to write, when its file
\* system call number `at` fails (call 1 is MkdirAll, calls 2..6 the writes)
InitTmpCreated(at) == {InitTmpPaths[i] : i \in 1..Min(at - 1, Len(InitTmpPaths))}

\* the step taken is what an init leaves when its call number `at` fails, and
\* then certs/ is gone if the init created it, the data directory is kept if
\* it was there, and the only files gone are .tmp files the init wrote
FailedInitCleansOnlyItsOwn(r, at) ==
    (r.err \in {"stage failed", "commit failed"} /\ SameFiles(files', r.files) /\ dirs' = r.dirs)
        => /\ certsDirPath \notin dirs => certsDirPath \notin dirs'
           /\ dataDirPath \in dirs => dataDirPath \in dirs'
           /\ \A p \in DOMAIN files : p \in DOMAIN files' \/ p \in InitTmpCreated(at)

\* C14: an init that fails after it started writing removes the .tmp files it
\* created in that attempt and the certs/ directory if that attempt created
\* it, and removes neither the data directory nor a file that was there
\* before.
C14_InitCleanupScope ==
    [][\A subject \in Subjects, keyAlgo \in KeyAlgos, days \in ValidityDays, at \in 3..11 :
          FailedInitCleansOnlyItsOwn(InitCA(files, dirs, subject, keyAlgo, days, now,
                                            [kind |-> "fail", at |-> at]), at)]_vars

(***************************************************************************)
(* C15, C16, C17.                                                          *)
(***************************************************************************)
BothKeyAndCert == Exists(files, keyPath) /\ Exists(files, certPath)

NotInitializedError(r) ==
    r.err = ErrNotInitialized /\ SameFiles(r.files, files) /\ r.dirs = dirs

\* C15: IsInitialized holds exactly when ca.key and ca.crt both exist, and
\* whenever they do not both exist, SignCSR, RevokeCert, GenerateCRL, ListCerts
\* and VerifyCert return the 'CA not initialized' error, whatever their other
\* arguments, and change no file.
C15_NotInitializedGate ==
    /\ IsInitialized(files) <=> BothKeyAndCert
    /\ ~BothKeyAndCert =>
          /\ \A csr \in CSRs, days \in ValidityDays, fault \in Faults(6) :
                NotInitializedError(SignCSR(files, dirs, csr, days, now, fault))
          /\ \A serialArg \in SerialArgs, reason \in ReasonArgs, fault \in Faults(2) :
                NotInitializedError(RevokeCert(files, dirs, ToLower(serialArg), reason, now, fault))
          /\ \A hours \in NextUpdateHours, fault \in Faults(4) :
                NotInitializedError(GenerateCRL(files, dirs, hours, now, fault))
          /\ NotInitializedError(ListCerts(files, dirs, now))
          /\ \A input \in VerifyInputs(files) :
                NotInitializedError(VerifyCert(files, dirs, input, now))

\* half of the marker is there: ca.key exists and ca.crt does not
C15_Witness == Exists(files, keyPath) /\ ~Exists(files, certPath)

AnySubject == Subjects \cup {"CN=Second Root"}
AnyKeyAlgo == KeyAlgos \cup {"rsa-2048"}

\* C16: once an init has succeeded, every later init, with any subject and
\* algorithm, returns 'CA already initialized' and leaves every file as it was.
C16_ReinitRefused ==
    hist.initDone =>
        \A subject \in AnySubject, keyAlgo \in AnyKeyAlgo, days \in ValidityDays,
           fault \in Faults(11) :
            LET r == InitCA(files, dirs, subject, keyAlgo, days, now, fault)
            IN r.err = ErrAlreadyInitialized /\ SameFiles(r.files, files) /\ r.dirs = dirs

\* an initialized CA later in its life: one certificate issued, a CRL published
C16_Witness == hist.initDone /\ Len(Index(files)) = 1 /\ Exists(files, crlPath)

\* the step taken is what the init call r leaves
InitStepKeepsFiles(r) ==
    SameFiles(files', r.files) => r.err = ErrAlreadyInitialized /\ SameFiles(files', files)

\* C17: when the data directory holds ca.key or ca.crt, one of them being
\* enough, init returns 'CA already initialized' and overwrites or modifies no
\* file.
C17_EitherMarkerFileRefusesInit ==
    [][(Exists(files, keyPath) \/ Exists(files, certPath)) =>
          \A subject \in Subjects, keyAlgo \in KeyAlgos, days \in ValidityDays :
              InitStepKeepsFiles(InitCA(files, dirs, subject, keyAlgo, days, now, NoFault))]_vars

(***************************************************************************)
(* C18.                                                                    *)
(***************************************************************************)
EntriesWithSerial(serialHex) ==
    {i \in 1..Len(Index(files)) : Index(files)[i].serial = serialHex}

RevokeRefused(r, err) == r.err = err /\ SameFiles(r.files, files) /\ r.dirs = dirs

\* C18: on an initialized CA, revoke of a serial that has no index entry
\* returns 'not found' and revoke of a serial whose entry is revoked returns
\* 'already revoked', with any valid reason; both leave index.json and every
\* other file as they were.
C18_RevokeRefusals ==
    (IsInitialized(files) /\ IndexLoads(files)) =>
        \A serialArg \in SerialArgs, reason \in ReasonArgs \cap Range(ValidReasons),
           fault \in Faults(2) :
            LET r == runRevoke(files, dirs, serialArg, reason, now, fault)
                entries == EntriesWithSerial(ToLower(serialArg))
            IN /\ entries = {} => RevokeRefused(r, ErrNotFound)
               /\ (\E i \in entries : Index(files)[i].status = "revoked")
                      => RevokeRefused(r, ErrAlreadyRevoked)

\* serial 02 was revoked at an earlier second and serial 03 was never issued
C18_Witness ==
    /\ Len(Index(files)) = 1
    /\ Index(files)[1].status = "revoked"
    /\ Index(files)[1].revocation_reason = "superseded"
    /\ ParseRFC3339(Index(files)[1].revoked_at) < now

(***************************************************************************)
(* C19, C20.                                                               *)
(***************************************************************************)
\* ca.crl exists and lists the serial of cert
ListedInCRL(cert) ==
    /\ Exists(files, crlPath)
    /\ \E k \in 1..Len(files[crlPath].entries) : files[crlPath].entries[k].serial = cert.serial

SignedByCA(cert) == cert.signedBy = files[certPath].pub

\* C19: for a certificate the CA key signed, verify returns sig_ok, expiry_ok
\* exactly when not_before <= now <= not_after, and valid exactly when
\* expiry_ok holds and ca.crl does not list the serial; it reports REVOKED
\* exactly when ca.crl exists and lists the serial, and NOT CHECKED when ca.crl
\* is absent, which never makes the certificate invalid.
C19_VerifyVerdict ==
    IsInitialized(files) =>
        \A input \in VerifyInputs(files) :
            (input.pem /\ input.der /\ SignedByCA(input.cert)) =>
                LET r == VerifyCert(files, dirs, input, now)
                    inWindow == input.cert.notBefore <= now /\ now <= input.cert.notAfter
                IN /\ r.err = "ok"
                   /\ r.out.sigOK
                   /\ r.out.expiryOK <=> inWindow
                   /\ r.out.valid <=> (inWindow /\ ~ListedInCRL(input.cert))
                   /\ r.out.revStatus[1] = "REVOKED" <=> ListedInCRL(input.cert)
                   /\ ~Exists(files, crlPath) <=>
                          r.out.revStatus = <<"NOT CHECKED (no CRL available)">>
                   /\ ~Exists(files, crlPath) => (r.out.valid <=> inWindow)

\* one certificate is past its not_after and not listed in ca.crl, another is
\* at the last second of its window and listed in ca.crl
C19_Witness ==
    \E p, q \in CertFiles(files) :
        /\ now > files[p].notAfter
        /\ ~ListedInCRL(files[p])
        /\ now = files[q].notAfter
        /\ ListedInCRL(files[q])

\* C20: for a certificate the CA key did not sign, verify returns sig_ok false
\* and valid false, with no expiry result and no revocation status, whatever
\* its validity window and whatever ca.crl lists.
C20_SignatureFailureStopsVerify ==
    IsInitialized(files) =>
        \A input \in VerifyInputs(files) :
            (input.pem /\ input.der /\ ~SignedByCA(input.cert)) =>
                LET r == VerifyCert(files, dirs, input, now)
                IN /\ r.err = "ok"
                   /\ ~r.out.sigOK
                   /\ ~r.out.valid
                   /\ ~r.out.expiryOK
                   /\ r.out.revStatus = <<>>
                   /\ SameFiles(r.files, files)

\* the certificate of another CA carries a serial that ca.crl lists, and it
\* is past its not_after
C20_Witness ==
    /\ IsInitialized(files)
    /\ ListedInCRL(ForeignCert)
    /\ now > ForeignCert.notAfter

(***************************************************************************)
(* C21.                                                                    *)
(***************************************************************************)
\* verify of the certificate file at path p in the directory f at instant t
VerifyFile(f, d, p, t) == VerifyCert(f, d, [pem |-> TRUE, der |-> TRUE, cert |-> f[p]], t)

\* verify of p reports INVALID with the revocation status
\* REVOKED (reason: <reason of entry>, date: <revoked_at of entry>)
ReportsRevoked(f, d, p, t, entry) ==
    /\ Exists(f, crlPath)
    /\ LET r == VerifyFile(f, d, p, t)
       IN /\ r.err = "ok"
          /\ ~r.out.valid
          /\ r.out.revStatus = <<"REVOKED", entry.revocation_reason, entry.revoked_at>>

\* C21: for every issued certificate, verify of certs/<serial>.pem reports
\* VALID while the certificate is unexpired and ca.crl does not list it; when
\* a crl succeeds while the index entry is revoked, verify reports INVALID
\* with REVOKED, the reason and the revoked_at of the entry, and once it does
\* every later verify reports the same.
C21_VerifyFollowsRevocation ==
    [][\A i \in 1..Len(Index(files)) :
          LET entry == Index(files)[i]
              p == certFilePath(entry.serial)
          IN p \in DOMAIN files =>
               /\ (now' <= files'[p].notAfter
                     /\ ~(/\ Exists(files', crlPath)
                          /\ \E k \in 1..Len(files'[crlPath].entries) :
                                files'[crlPath].entries[k].serial = files'[p].serial))
                    => LET r == VerifyFile(files', dirs', p, now')
                       IN r.err = "ok" /\ r.out.valid
               /\ (entry.status = "revoked" /\ hist'.crlCalls > hist.crlCalls)
                    => ReportsRevoked(files', dirs', p, now', entry)
               /\ ReportsRevoked(files, dirs, p, now, entry)
                    => ReportsRevoked(files', dirs', p, now', entry)]_vars

\* time has passed since the CRL that lists a revoked certificate was
\* published, and another certificate is unexpired and not listed
C21_Witness ==
    \E p, q \in CertFiles(files) :
        /\ ListedInCRL(files[p])
        /\ now > files[crlPath].thisUpdate
        /\ ~ListedInCRL(files[q])
        /\ now <= files[q].notAfter

(***************************************************************************)
(* C22.                                                                    *)
(***************************************************************************)
\* C22: list and verify are read-only: in every reachable state, whatever
\* the input and whether the call succeeds or fails, the directory they
\* leave holds the same files with the same contents and the same
\* directories.
C22_ListAndVerifyReadOnly ==
    /\ LET r == ListCerts(files, dirs, now)
       IN SameFiles(r.files, files) /\ r.dirs = dirs
    /\ \A input \in VerifyInputs(files) :
          LET r == VerifyCert(files, dirs, input, now)
          IN SameFiles(r.files, files) /\ r.dirs = dirs

\* list has rows to show and verify a CRL to read, in a directory where an
\* interrupted command left temporary files
C22_Witness ==
    /\ IsInitialized(files)
    /\ Len(Index(files)) >= 1
    /\ Exists(files, crlPath)
    /\ \E p \in DOMAIN files : IsTmp(p)

(***************************************************************************)
(* C23.                                                                    *)
(***************************************************************************)
\* C23: list returns one row per index entry, in stored order, and the
\* status of a row is revoked iff the stored status is revoked, otherwise
\* expired iff not_after < now, otherwise active.
C23_ListDisplayStatus ==
    (IsInitialized(files) /\ IndexLoads(files)) =>
        LET r == ListCerts(files, dirs, now)
            index == LoadIndex(files)
        IN /\ r.err = "ok"
           /\ Len(r.out) = Len(index)
           /\ \A i \in 1..Len(index) :
                 /\ r.out[i].serial = index[i].serial
                 /\ r.out[i].subject = index[i].subject
                 /\ <<r.out[i].not_after>> = index[i].not_after
                 /\ r.out[i].status = "revoked" <=> index[i].status = "revoked"
                 /\ r.out[i].status = "expired" <=>
                        (index[i].status # "revoked" /\ index[i].not_after[1] < now)
                 /\ r.out[i].status = "active" <=>
                        (index[i].status # "revoked" /\ ~(index[i].not_after[1] < now))

\* the index holds a revoked entry past its not_after and an unrevoked entry
\* whose not_after is now
C23_Witness ==
    \E i, k \in 1..Len(Index(files)) :
        /\ Index(files)[i].status = "revoked" /\ Index(files)[i].not_after[1] < now
        /\ Index(files)[k].status = "active" /\ Index(files)[k].not_after[1] = now

(***************************************************************************)
(* C24.                                                                    *)
(***************************************************************************)
\* C24: in every reachable state the root certificate is not in the index:
\* no index entry has serial 01, every entry has a serial of 02 or more, and
\* the serial counter, when it can be read, is 02 or more.
C24_RootNotInIndex ==
    /\ \A i \in 1..Len(Index(files)) :
          /\ Index(files)[i].serial # <<"0", "1">>
          /\ ParseHex(Index(files)[i].serial) >= 2
    /\ Exists(files, serialPath) => ReadCounter(files, serialPath) >= 2

\* the index holds the entries of the first two certificates, 02 and 03
C24_Witness ==
    /\ Len(Index(files)) = 2
    /\ Index(files)[1].serial = <<"0", "2">>
    /\ Index(files)[2].serial = <<"0", "3">>
    /\ files[certPath].serial = 1

(***************************************************************************)
(* C25.                                                                    *)
(***************************************************************************)
\* C25: in every reachable state every index entry has status active or
\* revoked; an active entry has empty revoked_at and revocation_reason; a
\* revoked entry has both non-empty and its revocation_reason is one of
\* unspecified, keyCompromise, affiliationChanged, superseded,
\* cessationOfOperation.
C25_EntryStatusFields ==
    \A i \in 1..Len(Index(files)) :
        LET entry == Index(files)[i]
        IN /\ entry.status \in {"active", "revoked"}
           /\ entry.status = "active" =>
                 (entry.revoked_at = <<>> /\ entry.revocation_reason = "")
           /\ entry.status = "revoked" =>
                 /\ entry.revoked_at # <<>>
                 /\ entry.revocation_reason # ""
                 /\ entry.revocation_reason \in
                       {"unspecified", "keyCompromise", "affiliationChanged", "superseded",
                        "cessationOfOperation"}

\* the index holds an active entry and an entry revoked as superseded, after
\* a command was cut short
C25_Witness ==
    /\ faults > 0
    /\ \E i, j \in 1..Len(Index(files)) :
          /\ Index(files)[i].status = "active"
          /\ Index(files)[j].status = "revoked"
          /\ Index(files)[j].revocation_reason = "superseded"

(***************************************************************************)
(* C26, C27.                                                               *)
(***************************************************************************)
\* the text of a counter file that holds v: the hex digits of v, most
\* significant first, at least two of them, and a newline
CounterText(v) ==
    IF v < 256 THEN <<HexDigits[(v \div 16) + 1], HexDigits[(v % 16) + 1], "\n">>
    ELSE <<HexDigits[(v \div 256) + 1], HexDigits[((v \div 16) % 16) + 1],
           HexDigits[(v % 16) + 1], "\n">>

\* C26 as claimed: a serial counter below 256 is written as two lowercase hex
\* digits, and the value 256 as the string 0100.
C26_SerialAfterFfIs0100 ==
    LET serialVal == ReadCounter(files, serialPath)
    IN /\ serialVal < 256 => files[serialPath] = CounterText(serialVal)
       /\ serialVal = 256 => files[serialPath] = <<"0", "1", "0", "0", "\n">>

\* C26 amended: every sign advances the serial counter by one from 02; a
\* value below 256 is written as two lowercase hex digits, and the value 256
\* as the string 100.
C26_SerialAfterFfIs100 ==
    [][/\ files'[serialPath] # files[serialPath] =>
             ReadCounter(files', serialPath) = ReadCounter(files, serialPath) + 1
       /\ files[serialPath] = CounterText(ReadCounter(files, serialPath))
       /\ files'[serialPath] = CounterText(ReadCounter(files', serialPath))
       /\ ReadCounter(files', serialPath) = 256 =>
             files'[serialPath] = <<"1", "0", "0", "\n">>]_vars

\* the 254th sign has run
C26_Witness == ReadCounter(files, serialPath) = 256

\* C27: for every counter value V, ReadCounter of the file that WriteCounter
\* wrote V to returns V, and so does ReadCounter of the text that init, sign
\* and crl write for V: FormatSerial(V) and a newline; the counter files of
\* the directory read back as values.
C27_CounterRoundTrip ==
    /\ \A path \in {serialPath, crlnumPath}, V \in 0..MaxCounter :
          LET r == WriteCounter(files, path, V, NoFault)
          IN /\ r.err = "ok"
             /\ ReadCounter(r.files, path) = V
             /\ ReadCounter([files EXCEPT ![path] = FormatSerial(V) \o <<"\n">>], path) = V
    /\ ReadCounter(files, serialPath) >= 2
    /\ ReadCounter(files, crlnumPath) >= 1

\* serial holds a value of three hex digits and crlnumber has advanced
C27_Witness ==
    /\ ReadCounter(files, serialPath) > 256
    /\ ReadCounter(files, crlnumPath) > 1

(***************************************************************************)
(* C28.                                                                    *)
(***************************************************************************)
\* C28 as claimed: a list call made after another, with no command in
\* between that changed the directory, returns the same rows with the same
\* display status.
C28_RepeatedListIdentical ==
    [][(SameFiles(files', files) /\ dirs' = dirs) =>
          ListCerts(files', dirs', now').out = ListCerts(files, dirs, now).out]_vars

\* C28 amended: the second list call returns the same rows in the same
\* order, with the same serial, subject and not_after; the status of a row
\* differs exactly when the entry is not revoked and its not_after lies
\* between the two calls (at or after the first, before the second), and then
\* the first call shows active and the second expired.
C28_RepeatedListUpToExpiry ==
    [][(SameFiles(files', files) /\ dirs' = dirs /\ IsInitialized(files) /\ IndexLoads(files)) =>
          LET first == ListCerts(files, dirs, now)
              second == ListCerts(files', dirs', now')
          IN /\ first.err = "ok" /\ second.err = "ok"
             /\ Len(first.out) = Len(second.out)
             /\ \A i \in 1..Len(first.out) :
                   /\ first.out[i].serial = second.out[i].serial
                   /\ first.out[i].subject = second.out[i].subject
                   /\ first.out[i].not_after = second.out[i].not_after
                   /\ first.out[i].status # second.out[i].status <=>
                         /\ Index(files)[i].status # "revoked"
                         /\ now <= Index(files)[i].not_after[1]
                         /\ Index(files)[i].not_after[1] < now'
                   /\ first.out[i].status # second.out[i].status =>
                         (first.out[i].status = "active" /\ second.out[i].status = "expired")]_vars

\* the not_after of an unrevoked entry was the second before now, and the
\* index holds a revoked entry too
C28_Witness ==
    \E i, j \in 1..Len(Index(files)) :
        /\ Index(files)[i].status = "active"
        /\ Index(files)[i].not_after[1] + 1 = now
        /\ Index(files)[j].status = "revoked"

(***************************************************************************)
(* C29.                                                                    *)
(***************************************************************************)
\* C29 as claimed: for every structured name built from values of the
\* recognized attributes, ParseDN of the text FormatDN made of it succeeds and
\* returns the same name.
C29_ParseFormatRoundTrip ==
    (dn.stage = "parsed" /\ dn.name # EmptyName) =>
        (dn.parsed.err = "ok" /\ dn.parsed.name = dn.name)

\* a value FormatDN and ParseDN carry unchanged: not empty, without a comma,
\* without whitespace at either end
PlainValue(v) ==
    /\ v # <<>>
    /\ \A i \in 1..Len(v) : v[i] # ","
    /\ v[1] \notin Whitespace
    /\ v[Len(v)] \notin Whitespace

AttrValues(name) ==
    (IF name.CommonName # <<>> THEN {name.CommonName} ELSE {})
    \cup Range(name.Organization) \cup Range(name.OrganizationalUnit)
    \cup Range(name.Locality) \cup Range(name.Province) \cup Range(name.Country)

\* a name with at least one value (an empty common name is no value) and
\* none but plain values in its lists
PlainName(name) ==
    /\ name # EmptyName
    /\ name.CommonName = <<>> \/ PlainValue(name.CommonName)
    /\ \A field \in {"Organization", "OrganizationalUnit", "Locality", "Province", "Country"} :
          \A i \in 1..Len(name[field]) : PlainValue(name[field][i])

\* C29 amended: for every structured name that has at least one value and
\* whose values are all non-empty, hold no comma and neither begin nor end
\* with whitespace, ParseDN of the text FormatDN made of it succeeds and
\* returns the same name: same common name, same value lists in the same order.
C29_PlainNameRoundTrip ==
    (dn.stage = "parsed" /\ PlainName(dn.name)) =>
        (dn.parsed.err = "ok" /\ dn.parsed.name = dn.name)

\* a name with a common name, two different organization values, one of
\* them with an equals sign, and a value for each other attribute made it
\* through FormatDN and ParseDN
C29_Witness ==
    /\ dn.stage = "parsed"
    /\ PlainName(dn.name)
    /\ dn.name.CommonName = <<"a">>
    /\ dn.name.Organization = << <<"b", "=", "c">>, <<"a">> >>
    /\ dn.name.OrganizationalUnit # <<>>
    /\ dn.name.Locality # <<>>
    /\ dn.name.Province # <<>>
    /\ dn.name.Country # <<>>
    /\ dn.text = <<"C", "N", "=", "a", ",", "O", "=", "b", "=", "c", ",", "O", "=", "a", ",",
                   "O", "U", "=", "x", ",", "L", "=", "x", ",", "S", "T", "=", "x", ",",
                   "C", "=", "x">>

(***************************************************************************)
(* C30.                                                                    *)
(***************************************************************************)
\* C30: after a crash of init, sign or crl the directory needs no repair:
\* when the CA is not initialized, a retried init succeeds and leaves a
\* complete CA; when it is initialized, sign of a valid CSR succeeds and
\* issues a serial that no certificate and no index entry carries, crl and
\* list succeed, and revoke of a serial with an active index entry succeeds.
C30_CrashNeedsNoRepair ==
    (hist.crashed /\ faults = 1) =>
        IF ~IsInitialized(files)
        THEN \A subject \in Subjects, keyAlgo \in KeyAlgos, days \in ValidityDays :
                LET r == InitCA(files, dirs, subject, keyAlgo, days, now, NoFault)
                IN /\ r.err = "ok"
                   /\ \A p \in {keyPath, certPath, serialPath, crlnumPath, indexPath} :
                         Exists(r.files, p)
        ELSE /\ \A days \in ValidityDays :
                   LET r == SignCSR(files, dirs, GoodCSR, days, now, NoFault)
                   IN /\ r.err = "ok"
                      /\ ReadCounter(files, serialPath) \notin CertSerials(files)
                      /\ ReadCounter(files, serialPath) \notin IndexSerials(files)
                      /\ Exists(r.files, certFilePath(FormatSerial(ReadCounter(files, serialPath))))
             /\ \A hours \in NextUpdateHours :
                   GenerateCRL(files, dirs, hours, now, NoFault).err = "ok"
             /\ ListCerts(files, dirs, now).err = "ok"
             /\ \A serialArg \in SerialArgs :
                   (\E i \in 1..Len(Index(files)) :
                       /\ Index(files)[i].serial = serialArg
                       /\ Index(files)[i].status = "active")
                   => runRevoke(files, dirs, serialArg, "keyCompromise", now, NoFault).err = "ok"

(***************************************************************************)
(* C31.                                                                    *)
(***************************************************************************)
\* every final path that the call r created, changed or removed is one it
\* renamed a .tmp file onto
WritesByRenameOnly(r) ==
    \A p \in FinalPaths(files) \cup FinalPaths(r.files) :
        (p \notin DOMAIN files \/ p \notin DOMAIN r.files \/ r.files[p] # files[p])
            => p \in Range(r.renamed)

\* C31: every write of a file by any command goes through write to
\* <path>.tmp, then rename: a command changes no final path but by a rename,
\* crash included, and when writeFileAtomic fails the .tmp file is removed
\* and the final path keeps its old content.
C31_EveryWriteIsTmpThenRename ==
    /\ EveryCall(WritesByRenameOnly)
    /\ \A subject \in RequestSubjects, keyAlgo \in KeyAlgos,
          outKeyPath \in OutKeyPaths, outCSRPath \in OutCSRPaths,
          fault \in Faults(3), torn \in BOOLEAN :
          WritesByRenameOnly(GenerateCSR(files, dirs, subject, keyAlgo, outKeyPath,
                                         outCSRPath, fault, torn))
    /\ \A path \in {indexPath} \cup OutKeyPaths, at \in 1..2 :
          LET r == writeFileAtomic(files, path, <<>>, [kind |-> "fail", at |-> at])
          IN /\ ~Exists(r.files, Tmp(path))
             /\ SameFinalFiles(r.files, files)

(***************************************************************************)
(* C32.                                                                    *)
(***************************************************************************)
\* C32: sign returns the error of the first precondition that fails, in the
\* order: CA initialized, PEM block decodes, PKCS#10 parses, CSR signature
\* verifies, key is P-256 ECDSA or RSA-2048; when all hold it returns none
\* of these errors.
C32_SignPreconditionOrder ==
    \A csr \in AllCSRs, days \in ValidityDays :
        LET r == SignCSR(files, dirs, csr, days, now, NoFault)
        IN r.err = IF ~(Exists(files, keyPath) /\ Exists(files, certPath))
                   THEN ErrNotInitialized
                   ELSE IF ~csr.pem THEN ErrParseCSR
                   ELSE IF ~csr.der THEN ErrParseCSR
                   ELSE IF ~csr.sigOK THEN ErrCSRSignature
                   ELSE IF csr.pubAlgo \notin {"ecdsa-p256", "rsa-2048"} THEN ErrCSRKeyAlgo
                   ELSE IF r.err \in {ErrNotInitialized, ErrParseCSR, ErrCSRSignature,
                                      ErrCSRKeyAlgo}
                   THEN "ok" ELSE r.err

\* on an initialized CA that has issued a certificate, a CSR with both an
\* invalid signature and an RSA-1024 key is refused with the signature error
C32_Witness ==
    /\ IsInitialized(files)
    /\ Len(Index(files)) >= 1
    /\ \E days \in ValidityDays :
          SignCSR(files, dirs,
                  [pem |-> TRUE, der |-> TRUE, sigOK |-> FALSE, pubAlgo |-> "rsa-1024",
                   pub |-> "leaf", subject |-> "CN=leaf"],
                  days, now, NoFault).err = ErrCSRSignature

(***************************************************************************)
(* C33.                                                                    *)
(***************************************************************************)
\* the call r, cut by fault, of an operation whose first rename is its file
\* system call firstRename: a fault before firstRename leaves no rename
\* behind and every final path as it was; a crash after a rename finds every
\* .tmp file of the operation written (still there, or renamed already)
StagedBeforeRenamed(r, tmpPaths, fault, firstRename) ==
    /\ (fault.kind # "none" /\ fault.at < firstRename) =>
          (r.renamed = <<>> /\ SameFinalFiles(r.files, files))
    /\ (r.err = "crash" /\ r.renamed # <<>>) =>
          \A i \in 1..Len(tmpPaths) :
              \/ Exists(r.files, tmpPaths[i])
              \/ SubSeq(tmpPaths[i], 1, Len(tmpPaths[i]) - 1) \in Range(r.renamed)
    /\ r.err = "ok" => Len(r.renamed) = Len(tmpPaths)

\* C33: in init, sign and crl no rename onto a final path happens before
\* every stage write of the operation has succeeded, whichever file system
\* call fails and wherever the process is killed.
C33_StageBeforeCommit ==
    /\ \A subject \in Subjects, keyAlgo \in KeyAlgos, days \in ValidityDays, fault \in Faults(11) :
          StagedBeforeRenamed(InitCA(files, dirs, subject, keyAlgo, days, now, fault),
                              InitTmpPaths, fault, 7)
    /\ \A days \in ValidityDays, fault \in Faults(6) :
          StagedBeforeRenamed(SignCSR(files, dirs, GoodCSR, days, now, fault),
                              SignTmpPaths(FormatSerial(ReadCounter(files, serialPath))),
                              fault, 4)
    /\ \A hours \in NextUpdateHours, fault \in Faults(4) :
          StagedBeforeRenamed(GenerateCRL(files, dirs, hours, now, fault),
                              CRLTmpPaths, fault, 3)

\* a command was killed while staging: the directory holds .tmp files and
\* nothing else
C33_Witness ==
    /\ hist.crashed
    /\ DOMAIN files # {}
    /\ \A p \in DOMAIN files : IsTmp(p)

ChangedPaths(r) ==
    {p \in FinalPaths(files) \cup FinalPaths(r.files) :
        p \notin DOMAIN files \/ p \notin DOMAIN r.files \/ r.files[p] # files[p]}

\* once init has succeeded the call r leaves ca.key and ca.crt as they are,
\* and it leaves every certificate file of certs/ as it is
KeepsKeyAndCertificates(r) ==
    /\ hist.initDone => ChangedPaths(r) \cap {keyPath, certPath} = {}
    /\ ChangedPaths(r) \cap CertFiles(files) = {}

\* C35: whether it succeeds, fails or is killed, sign changes only serial,
\* certs/<hex(N)>.pem and index.json, revoke only index.json, crl only ca.crl
\* and crlnumber; once init has succeeded no command rewrites ca.key or
\* ca.crt, and no command modifies or deletes a certificate file of certs/.
C35_OperationsWriteOwnFiles ==
    /\ \A csr \in CSRs, days \in ValidityDays, fault \in Faults(6) :
          ChangedPaths(SignCSR(files, dirs, csr, days, now, fault)) \subseteq
              {serialPath, indexPath} \cup
              (IF Exists(files, serialPath)
               THEN {<<"certs">> \o SubSeq(files[serialPath], 1, Len(files[serialPath]) - 1)
                                 \o <<".pem">>}
               ELSE {})
    /\ \A serialArg \in SerialArgs, reason \in ReasonArgs, fault \in Faults(2) :
          ChangedPaths(runRevoke(files, dirs, serialArg, reason, now, fault)) \subseteq {indexPath}
    /\ \A hours \in NextUpdateHours, fault \in Faults(4) :
          ChangedPaths(GenerateCRL(files, dirs, hours, now, fault)) \subseteq {crlPath, crlnumPath}
    /\ EveryCall(KeepsKeyAndCertificates)

\* init has succeeded, two certificates are in certs/, one of them revoked,
\* and a CRL is published
C35_Witness ==
    /\ hist.initDone
    /\ Cardinality(CertFiles(files)) = 2
    /\ Exists(files, crlPath)
    /\ \E i \in 1..Len(Index(files)) : Index(files)[i].status = "revoked"

(***************************************************************************)
(* C36.                                                                    *)
(***************************************************************************)
\* C36: in every reachable state in which ca.crl exists, a stale CRL and the
\* states left by crashes included, every serial that ca.crl lists is the
\* serial of an index entry whose status is revoked.
C36_CRLListsOnlyRevoked ==
    Exists(files, crlPath) =>
        \A k \in 1..Len(files[crlPath].entries) :
            \E i \in 1..Len(Index(files)) :
                /\ ParseHex(Index(files)[i].serial) = files[crlPath].entries[k].serial
                /\ Index(files)[i].status = "revoked"

\* after a crash, ca.crl lists one serial while the index holds two revoked
\* entries: the CRL is stale
C36_Witness ==
    /\ hist.crashed
    /\ Exists(files, crlPath)
    /\ Len(files[crlPath].entries) = 1
    /\ Cardinality({i \in 1..Len(Index(files)) : Index(files)[i].status = "revoked"}) = 2

(***************************************************************************)
(* C37.                                                                    *)
(***************************************************************************)
\* the revocation status that verify of p reports when ca.crl does not list
\* the certificate
NotRevokedStatus(f) ==
    IF Exists(f, crlPath) THEN <<"OK (not revoked)">>
    ELSE <<"NOT CHECKED (no CRL available)">>

\* verify of p succeeds, reports the certificate as not revoked, and VALID
\* exactly when t is within its validity window
ReportsNotRevoked(f, d, p, t) ==
    LET r == VerifyFile(f, d, p, t)
    IN /\ r.err = "ok"
       /\ r.out.revStatus = NotRevokedStatus(f)
       /\ r.out.valid <=> (f[p].notBefore <= t /\ t <= f[p].notAfter)

SerialsInOrder(f) == [i \in 1..Len(Index(f)) |-> ParseHex(Index(f)[i].serial)]

StrictlyIncreasing(s) == \A i, j \in 1..Len(s) : i < j => s[i] < s[j]

\* C38: the index entries are in strictly increasing serial order after
\* every step, crashes and failed calls included; a step keeps the serials of
\* the entries it finds in their order and adds at most one entry, at the
\* end, with a serial greater than all the others and after the certificate
\* file of that serial is in place: the number of entries never decreases.
C38_IndexOrderedAppendOnly ==
    [][/\ StrictlyIncreasing(SerialsInOrder(files'))
       /\ IsPrefix(SerialsInOrder(files), SerialsInOrder(files'))
       /\ Len(Index(files')) <= Len(Index(files)) + 1
       /\ Len(Index(files')) = Len(Index(files)) + 1 =>
             LET new == Index(files')[Len(Index(files'))]
             IN /\ \A i \in 1..Len(Index(files)) :
                      ParseHex(Index(files)[i].serial) < ParseHex(new.serial)
                /\ Exists(files', certFilePath(new.serial))
                /\ new.status = "active"]_vars

\* two entries in the index, the first of them revoked, after a file system
\* call failed or a command was killed
C38_Witness ==
    /\ faults = 1
    /\ Len(Index(files)) = 2
    /\ Index(files)[1].status = "revoked"

(***************************************************************************)
(* C39.                                                                    *)
(***************************************************************************)
\* the fields of an index entry that a revocation leaves alone
KeptFields(entry) ==
    <<entry.serial, entry.subject, entry.not_before, entry.not_after>>

\* C39: a revoke of serial S that succeeds changes the status, the
\* revoked_at and the revocation_reason of the one entry with serial S, and
\* nothing else: the serial, subject, not_before and not_after of that entry,
\* every other entry, the number and order of the entries, and every file
\* other than index.json (serial, crlnumber, ca.crl and certs/ among them)
\* are as before.
C39_RevokeChangesThreeFields ==
    \A serialArg \in SerialArgs, reason \in ReasonArgs :
        LET r == runRevoke(files, dirs, serialArg, reason, now, NoFault)
            old == Index(files)
            new == Index(r.files)
            changed == {i \in 1..Len(old) : new[i] # old[i]}
        IN r.err = "ok" =>
             /\ Len(new) = Len(old)
             /\ Cardinality(changed) = 1
             /\ \A i \in changed :
                   /\ old[i].serial = ToLower(serialArg)
                   /\ KeptFields(new[i]) = KeptFields(old[i])
                   /\ new[i].status # old[i].status
                   /\ new[i].revoked_at # old[i].revoked_at
                   /\ new[i].revocation_reason # old[i].revocation_reason
                   /\ DOMAIN new[i] = DOMAIN old[i]
             /\ \A i \in 1..Len(old) : old[i].serial = ToLower(serialArg) => i \in changed
             /\ r.dirs = dirs
             /\ \A p \in (DOMAIN files \cup DOMAIN r.files) \ {indexPath, Tmp(indexPath)} :
                   /\ p \in DOMAIN files
                   /\ p \in DOMAIN r.files
                   /\ r.files[p] = files[p]

\* a revoke has succeeded on the second of two entries while the first is
\* active and a CRL is on disk, and the first can still be revoked
C39_Witness ==
    /\ Len(Index(files)) = 2
    /\ Index(files)[1].status = "active"
    /\ Index(files)[2].status = "revoked"
    /\ Exists(files, crlPath)
    /\ \E serialArg \in SerialArgs, reason \in ReasonArgs :
          runRevoke(files, dirs, serialArg, reason, now, NoFault).err = "ok"

(***************************************************************************)
(* C40.                                                                    *)
(***************************************************************************)
\* the data directory without its .tmp files
WithoutTmp(f) == [p \in FinalPaths(f) |-> f[p]]

\* the files with the identity of the CA key drawn by init left out: two runs
\* of init draw two keys, and only what is made of the key can tell them apart
UpToKeyDrawn(f) ==
    LET ca == IF Exists(f, keyPath) THEN f[keyPath].id ELSE 0
        Named(k) == IF k = ca THEN 0 ELSE k
    IN [p \in DOMAIN f |->
          IF p = keyPath THEN [f[p] EXCEPT !.id = 0]
          ELSE IF p = certPath \/ p \in CertFiles(f)
          THEN [f[p] EXCEPT !.signedBy = Named(@),
                            !.pub = IF p = certPath THEN Named(@) ELSE @]
          ELSE f[p]]

\* the calls r and q return the same result and leave the same contents
\* under every final path
SameOutcome(r, q) ==
    /\ r.err = q.err
    /\ r.out = q.out
    /\ r.dirs = q.dirs
    /\ SameFinalFiles(UpToKeyDrawn(r.files), UpToKeyDrawn(q.files))

\* C40: .tmp files left in the data directory never influence a later
\* operation: in every reachable state that holds .tmp files, every init,
\* sign, revoke, crl, list and verify, with every input and whichever of its
\* file system calls fails, returns the same result and leaves the same
\* contents under every final path as the same call in the same directory
\* without the .tmp files.
C40_LeftoverTmpNeverRead ==
    (\E p \in DOMAIN files : IsTmp(p)) =>
        LET clean == WithoutTmp(files)
        IN /\ \A subject \in Subjects, keyAlgo \in KeyAlgos, days \in ValidityDays,
                 fault \in Faults(11) :
                 SameOutcome(InitCA(files, dirs, subject, keyAlgo, days, now, fault),
                             InitCA(clean, dirs, subject, keyAlgo, days, now, fault))
           /\ \A csr \in CSRs, days \in ValidityDays, fault \in Faults(6) :
                 SameOutcome(SignCSR(files, dirs, csr, days, now, fault),
                             SignCSR(clean, dirs, csr, days, now, fault))
           /\ \A serialArg \in SerialArgs, reason \in ReasonArgs, fault \in Faults(2) :
                 SameOutcome(runRevoke(files, dirs, serialArg, reason, now, fault),
                             runRevoke(clean, dirs, serialArg, reason, now, fault))
           /\ \A hours \in NextUpdateHours, fault \in Faults(4) :
                 SameOutcome(GenerateCRL(files, dirs, hours, now, fault),
                             GenerateCRL(clean, dirs, hours, now, fault))
           /\ SameOutcome(ListCerts(files, dirs, now), ListCerts(clean, dirs, now))
           /\ \A input \in VerifyInputs(files) :
                 SameOutcome(VerifyCert(files, dirs, input, now),
                             VerifyCert(clean, dirs, input, now))

\* a sign was killed between its stage writes and the rename of index.json:
\* the CA holds a certificate and the leftover index.json.tmp
C40_Witness ==
    /\ hist.crashed
    /\ IsInitialized(files)
    /\ Exists(files, Tmp(indexPath))
    /\ Exists(files, indexPath)
    /\ files[Tmp(indexPath)] # files[indexPath]

====
